---- MODULE Spec2Model ----
(***************************************************************************)
(* State-machine model of the SCI16 animation compositor (GfxAnimate):     *)
(* list building and sorting, geometry/scaling resolution, the signal      *)
(* update passes, background save/restore, screen reconciliation and the   *)
(* kernelAnimate / kernelAddToPicList / reAnimate entry points.            *)
(*                                                                         *)
(* Selector values live in the object store as 16-bit words (0..65535);    *)
(* the compositor's AnimateEntry keeps most of them as int16.  Signal and  *)
(* scaleSignal bitmasks are modelled as sets of named bits: `&` is set     *)
(* intersection, `|` is union, `& ~` is set difference.                    *)
(***************************************************************************)
EXTENDS Integers, Sequences, FiniteSets, TLC

\* ------------------------------------------------------------------ bounds
NumObjects == 3
MaxCalls == 2
MaxScriptEffects == 1
LongCast == 256

Objects == 1..NumObjects

\* ------------------------------------------------------------ 16-bit words
\* uint16 -> int16 (a readSelectorValue result stored in an int16 field)
ToS16(u) == IF u >= 32768 THEN u - 65536 ELSE u

\* int -> uint16 (writeSelectorValue of an int16 / int value)
ToU16(i) == i % 65536

\* int -> int16 (an int expression stored in an int16 variable)
WrapS16(i) == ToS16(ToU16(i))

Abs(i) == IF i < 0 THEN -i ELSE i

\* C++ integer division: the quotient is truncated toward zero (b # 0)
CDiv(a, b) ==
    IF (a >= 0) = (b > 0) THEN Abs(a) \div Abs(b) ELSE -(Abs(a) \div Abs(b))

\* >> 7 on an int: arithmetic shift, i.e. floor division by 128
Shr7(i) == i \div 128

\* CLIP<int16>(v, lo, hi)
Clip(v, lo, hi) == IF v < lo THEN lo ELSE IF v > hi THEN hi ELSE v

\* ------------------------------------------------------------- signal bits
kSignalStopUpdate == "StopUpdate"
kSignalViewUpdated == "ViewUpdated"
kSignalNoUpdate == "NoUpdate"
kSignalHidden == "Hidden"
kSignalFixedPriority == "FixedPriority"
kSignalAlwaysUpdate == "AlwaysUpdate"
kSignalForceUpdate == "ForceUpdate"
kSignalRemoveView == "RemoveView"
kSignalFrozen == "Frozen"
kSignalIgnoreActor == "IgnoreActor"
kSignalDisposeMe == "DisposeMe"

kScaleSignalDoScaling == "DoScaling"
kScaleSignalGlobalScaling == "GlobalScaling"
kScaleSignalHoyle4SpecialHandling == "Hoyle4SpecialHandling"

\* ------------------------------------------------------------ SCI versions
SCI_VERSION_0_LATE == 2
SCI_VERSION_1_EGA_ONLY == 4
SCI_VERSION_1_EARLY == 5
SCI_VERSION_1_1 == 8

\* ------------------------------------------------------------- rectangles
Rect(l, t, r, b) == [left |-> l, top |-> t, right |-> r, bottom |-> b]

ZeroRect == Rect(0, 0, 0, 0)

Min(a, b) == IF a < b THEN a ELSE b
Max(a, b) == IF a > b THEN a ELSE b

\* Common::Rect::isEmpty
RectIsEmpty(r) == r.left >= r.right \/ r.top >= r.bottom

\* Common::Rect::clip
RectClip(r, c) ==
    Rect(Clip(r.left, c.left, c.right), Clip(r.top, c.top, c.bottom),
         Clip(r.right, c.left, c.right), Clip(r.bottom, c.top, c.bottom))

\* Common::Rect::extend
RectExtend(r, c) ==
    Rect(Min(r.left, c.left), Min(r.top, c.top),
         Max(r.right, c.right), Max(r.bottom, c.bottom))

\* ------------------------------------------------- views (sprite resources)
Views == 1..3

\* view 1: scalable, two loops; view 2: not scalable, four loops;
\* view 3: scalable, one loop whose only cel has height 0
ViewIsScaleable(v) == v # 2

ViewLoopCount(v) == CASE v = 1 -> 2 [] v = 2 -> 4 [] OTHER -> 1

\* GfxView::getCelCount clamps the loop number into the valid range
ViewCelCount(v, loopNo) ==
    LET l == Clip(loopNo, 0, ViewLoopCount(v) - 1)
    IN  CASE v = 1 -> (IF l = 0 THEN 3 ELSE 2)
          [] v = 2 -> l + 1
          [] OTHER -> 1

ViewHeight(v, loopNo, celNo) == CASE v = 1 -> 40 [] v = 2 -> 20 [] OTHER -> 0

ViewWidth(v, loopNo, celNo) == CASE v = 1 -> 20 [] v = 2 -> 10 [] OTHER -> 4

\* GfxView::getCelRect
GetCelRect(v, loopNo, celNo, x, y, z) ==
    LET w == ViewWidth(v, loopNo, celNo)
        h == ViewHeight(v, loopNo, celNo)
        l == x - (w \div 2)
        b == y - z + 1
    IN  Rect(l, b - h, l + w, b)

\* GfxView::getCelScaledRect
GetCelScaledRect(v, loopNo, celNo, x, y, z, scaleX, scaleY) ==
    LET w == Shr7(ViewWidth(v, loopNo, celNo) * scaleX)
        h == Shr7(ViewHeight(v, loopNo, celNo) * scaleY)
        l == x - (w \div 2)
        b == y - z + 1
    IN  Rect(l, b - h, l + w, b)

\* GfxPorts::kernelCoordinateToPriority / kernelPriorityToCoordinate
\* (priority bands of 16 lines)
CoordinateToPriority(y) == Clip(y \div 16, 0, 15)

PriorityToCoordinate(p) == Clip(p, 0, 15) * 16

\* -------------------------------------------------------------- the sorter
\* bool sortHelper(entry1, entry2)
SortHelperNoTieBreak(e1, e2) ==
    IF e1.y = e2.y
        THEN IF e1.z = e2.z THEN FALSE ELSE e1.z < e2.z
        ELSE e1.y < e2.y

sortHelper(e1, e2) ==
    IF e1.y = e2.y
        THEN IF e1.z = e2.z
                 THEN e1.givenOrderNo < e2.givenOrderNo
                 ELSE e1.z < e2.z
        ELSE e1.y < e2.y

Swap(s, i, j) == [s EXCEPT ![i] = s[j], ![j] = s[i]]

\* Common::sortPartition over s[1..n] with the pivot already moved to s[n]:
\* returns <<sequence, index of the pivot's final place>>
SortPartitionStep(st, first, n) ==
    IF ~sortHelper(st[1][n], st[1][first])
        THEN <<Swap(st[1], first, st[2]), st[2] + 1>>
        ELSE st

\* the loop body for first = lo..hi in ascending order, on <<s, sorted>>; the
\* range is halved, and its input looked at first, so that the evaluation of
\* a long list stays shallow (the loops over the entries below do the same)
RECURSIVE SortPartitionRange(_, _, _, _)
SortPartitionRange(st, lo, hi, n) ==
    IF lo > hi \/ st[2] > n THEN st
    ELSE IF lo = hi THEN SortPartitionStep(st, lo, n)
    ELSE SortPartitionRange(SortPartitionRange(st, lo, (lo + hi) \div 2, n),
                            ((lo + hi) \div 2) + 1, hi, n)

SortPartitionDone(st, n) == <<Swap(st[1], n, st[2]), st[2]>>

SortPartitionLoop(s, first, sorted, n) ==
    SortPartitionDone(SortPartitionRange(<<s, sorted>>, first, n - 1, n), n)

\* Common::sort (quicksort, pivot at the middle of the range)
RECURSIVE CommonSort(_)
CommonSort(s) ==
    IF Len(s) = 0
        THEN s
        ELSE LET n == Len(s)
                 pivot == (n \div 2) + 1
                 part == SortPartitionLoop(Swap(s, pivot, n), 1, 1, n)
                 t == part[1]
                 k == part[2]
             IN  CommonSort(SubSeq(t, 1, k - 1)) \o <<t[k]>> \o
                 CommonSort(SubSeq(t, k + 1, n))


\* ------------------------------------------------------------------- state
VARIABLES
    version,            \* getSciVersion()
    fastCastEnabled,    \* _fastCastEnabled
    hoyle4,             \* g_sci->getGameId() == GID_HOYLE4
    obj,                \* the object store: selectors of every object
    nodes,              \* the script's cast list (objects in traversal order)
    vanishingY,         \* selector vanishingY of the current room object
    portBottom,         \* _ports->_picWind->rect.bottom
    fastCastGlobal,     \* global variable kGlobalVarFastCast is non-null
    abortScriptProcessing,
    picNotValid,        \* _screen->_picNotValid
    list,               \* _list
    lastCastData,       \* _lastCastData
    port,               \* the current port
    throttleTrigger,    \* _s->_throttleTrigger
    live,               \* hunk handles saved by bitsSave and not yet restored/freed
    pc,                 \* position inside the running kernel call
    idx,                \* cursor of the running list walk
    loc,                \* locals of the running call
    log,                \* effects of the running call, in order
    built,              \* the object store as the last makeSortedList read it
    calls,              \* kernel calls started so far
    effects             \* script side effects taken so far

vars == <<version, fastCastEnabled, hoyle4, obj, nodes, vanishingY, portBottom,
          fastCastGlobal, abortScriptProcessing, picNotValid, list, lastCastData,
          port, throttleTrigger, live, pc, idx, loc, log, built, calls,
          effects>>

envVars == <<version, fastCastEnabled, hoyle4, vanishingY, portBottom>>

\* an effect of the compositor on a collaborator
Ev(op, o, f, v) == [op |-> op, o |-> o, f |-> f, v |-> v]

\* The part of the state the handlers below read and change.
Cur == [obj |-> obj, list |-> list, lastCastData |-> lastCastData, log |-> log,
        live |-> live, picNotValid |-> picNotValid,
        oldPic |-> loc.old_picNotValid, fatal |-> FALSE]

Emit(m, e) == [m EXCEPT !.log = Append(@, e)]

\* writeSelectorValue / writeSelector
WriteSelector(m, o, f, v) ==
    Emit([m EXCEPT !.obj[o][f] = v], Ev("write", o, f, v))

\* GfxPaint16::bitsSave: a fresh hunk handle
FreshHandle(lv) == CHOOSE h \in 1..(Cardinality(lv) + 1) :
                      h \notin lv /\ \A g \in 1..(h - 1) : g \in lv

\* GfxPaint16::bitsRestore / bitsFree
BitsRestore(m, o, h) ==
    Emit([m EXCEPT !.live = @ \ {h}], Ev("restore", o, "", h))

BitsFree(m, o, h) ==
    Emit([m EXCEPT !.live = @ \ {h}], Ev("free", o, "", h))

\* GfxPaint16::drawCel
DrawCel(m, o) == Emit(m, Ev("draw", o, "", 0))

\* GfxPaint16::fillRect on the control plane (the priority-marker strip)
FillRect(m, o) == Emit(m, Ev("fillRect", o, "control", 0))

\* GfxPaint16::bitsShow
BitsShow(m, r) == Emit(m, Ev("show", 0, "", r))

\* ----------------------------------------------------------- list building
\* the AnimateEntry that makeSortedList builds for list node number listNr
BuildEntry(s, o, listNr) ==
    LET scaling == version >= SCI_VERSION_1_1
        doScale == scaling /\ kScaleSignalDoScaling \in s.scaleSignal
    IN  [object |-> o,
         castHandle |-> 0,
         givenOrderNo |-> listNr,
         viewId |-> s.view,
         loopNo |-> ToS16(s.loop),
         celNo |-> ToS16(s.cel),
         x |-> ToS16(s.x),
         y |-> ToS16(s.y),
         z |-> ToS16(s.z),
         priority |-> ToS16(s.priority),
         signal |-> s.signal,
         scaleSignal |-> IF scaling THEN s.scaleSignal ELSE {},
         scaleX |-> IF doScale THEN ToS16(s.scaleX) ELSE 128,
         scaleY |-> IF doScale THEN ToS16(s.scaleY) ELSE 128,
         celRect |-> ZeroRect,
         showBitsFlag |-> FALSE]

\* the loop of makeSortedList: one entry pushed per node of the list
FillList(old, store, ns) ==
    old \o [i \in 1..Len(ns) |-> BuildEntry(store[ns[i]], ns[i], i - 1)]

\* GfxAnimate::makeSortedList for the list whose nodes are ns
MakeSortedListNoClear(m, ns) ==
    [m EXCEPT !.list = CommonSort(FillList(m.list, m.obj, ns)),
              !.lastCastData = <<>>]

makeSortedList(m, ns) ==
    [m EXCEPT !.list = CommonSort(FillList(<<>>, m.obj, ns)),
              !.lastCastData = <<>>]

\* ---------------------------------------------------- geometry and scaling
AdjustLoopWritesBack(m, i) ==
    LET e == m.list[i]
        viewLoopCount == ViewLoopCount(e.viewId)
    IN  IF e.loopNo >= viewLoopCount
            THEN WriteSelector([m EXCEPT !.list[i].loopNo = 0], e.object, "loop", 0)
            ELSE IF e.loopNo < 0
                THEN WriteSelector([m EXCEPT !.list[i].loopNo = viewLoopCount - 1],
                                   e.object, "loop", viewLoopCount - 1)
                ELSE m

\* GfxAnimate::adjustInvalidCels, the loop number
AdjustLoop(m, i) ==
    LET e == m.list[i]
        viewLoopCount == ViewLoopCount(e.viewId)
    IN  IF e.loopNo >= viewLoopCount
            THEN WriteSelector([m EXCEPT !.list[i].loopNo = 0], e.object, "loop", 0)
            ELSE IF e.loopNo < 0
                THEN [m EXCEPT !.list[i].loopNo = viewLoopCount - 1]
                ELSE m

\* GfxAnimate::adjustInvalidCels, the cel number (of the loop just resolved)
AdjustCel(m, i) ==
    LET e == m.list[i]
        viewCelCount == ViewCelCount(e.viewId, e.loopNo)
    IN  IF e.celNo >= viewCelCount
            THEN WriteSelector([m EXCEPT !.list[i].celNo = 0], e.object, "cel", 0)
            ELSE IF e.celNo < 0
                THEN [m EXCEPT !.list[i].celNo = viewCelCount - 1]
                ELSE m

adjustInvalidCels(m, i) == AdjustCel(AdjustLoop(m, i), i)

\* GfxAnimate::applyGlobalScaling: the scale factor, from int16 operands
GlobalScaleFloor(maxScale, celHeight, vanY, portB, y) ==
    LET maxCelHeight == WrapS16(Shr7(maxScale * celHeight))
        fixedPortY == WrapS16(portB - vanY)
        entryY == WrapS16(y - vanY)
        fixedEntryY == IF entryY = 0 THEN 1 ELSE entryY
        product == maxCelHeight * fixedEntryY
        first == WrapS16(IF fixedPortY > 0 THEN product \div fixedPortY
                                           ELSE (-product) \div (-fixedPortY))
    IN  WrapS16((first * 128) \div celHeight)

GlobalScale(maxScale, celHeight, vanY, portB, y) ==
    LET maxCelHeight == WrapS16(Shr7(maxScale * celHeight))
        fixedPortY == WrapS16(portB - vanY)
        entryY == WrapS16(y - vanY)
        fixedEntryY == IF entryY = 0 THEN 1 ELSE entryY
        first == WrapS16(CDiv(maxCelHeight * fixedEntryY, fixedPortY))
    IN  WrapS16(CDiv(first * 128, celHeight))

GlobalScalingPanic(celHeight, vanY, portB) ==
    celHeight = 0 \/ WrapS16(portB - vanY) = 0

\* the end of applyGlobalScaling: set the entry's scale and the object's selectors
SetScale(m, i, sc) ==
    WriteSelector(
        WriteSelector([m EXCEPT !.list[i].scaleY = sc, !.list[i].scaleX = sc],
                      m.list[i].object, "scaleX", ToU16(sc)),
        m.list[i].object, "scaleY", ToU16(sc))

ApplyGlobalScalingSkipsPanic(m, i) ==
    LET e == m.list[i]
        maxScale == ToS16(m.obj[e.object].maxScale)
        celHeight == ViewHeight(e.viewId, e.loopNo, e.celNo)
        vanY == ToS16(vanishingY)
    IN  IF GlobalScalingPanic(celHeight, vanY, portBottom)
            THEN m
            ELSE SetScale(m, i, GlobalScale(maxScale, celHeight, vanY, portBottom, e.y))

\* GfxAnimate::applyGlobalScaling
applyGlobalScaling(m, i) ==
    LET e == m.list[i]
        maxScale == ToS16(m.obj[e.object].maxScale)
        celHeight == ViewHeight(e.viewId, e.loopNo, e.celNo)
        vanY == ToS16(vanishingY)
    IN  IF GlobalScalingPanic(celHeight, vanY, portBottom)
            THEN Emit([m EXCEPT !.fatal = TRUE],
                      Ev("error", e.object, "global scaling panic", 0))
            ELSE SetScale(m, i, GlobalScale(maxScale, celHeight, vanY, portBottom, e.y))

ProcessViewScalingNoOverride(m, i) ==
    IF kScaleSignalDoScaling \in m.list[i].scaleSignal
       /\ kScaleSignalGlobalScaling \in m.list[i].scaleSignal
        THEN applyGlobalScaling(m, i)
        ELSE m

\* GfxAnimate::processViewScaling
processViewScaling(m, i) ==
    LET e == m.list[i]
    IN  IF ~ViewIsScaleable(e.viewId)
            THEN [m EXCEPT !.list[i].scaleSignal = {},
                           !.list[i].scaleY = 128, !.list[i].scaleX = 128]
            ELSE IF kScaleSignalDoScaling \in e.scaleSignal
                    /\ kScaleSignalGlobalScaling \in e.scaleSignal
                     THEN applyGlobalScaling(m, i)
                     ELSE m

\* GfxView::getCelSpecialHoyle4Rect: the object's nsRect moved to the cel's place
GetCelSpecialHoyle4Rect(v, loopNo, celNo, x, y, z, r) ==
    LET dy == y - ViewHeight(v, loopNo, celNo) + 1
        dx == x - ((ViewWidth(v, loopNo, celNo) - 1) \div 2)
    IN  Rect(r.left + dx, r.top + dy, r.right + dx, r.bottom + dy)

SetCelRect(m, i, r, shouldSetNsRect) ==
    IF shouldSetNsRect
        THEN WriteSelector([m EXCEPT !.list[i].celRect = r], m.list[i].object, "ns", r)
        ELSE [m EXCEPT !.list[i].celRect = r]

\* GfxAnimate::setNsRect
setNsRect(m, i) ==
    LET e == m.list[i]
    IN  IF kScaleSignalDoScaling \in e.scaleSignal
            THEN SetCelRect(m, i,
                     GetCelScaledRect(e.viewId, e.loopNo, e.celNo, e.x, e.y, e.z,
                                      e.scaleX, e.scaleY),
                     ~(kSignalHidden \in e.signal /\ kSignalAlwaysUpdate \notin e.signal))
            ELSE IF hoyle4 /\ kScaleSignalHoyle4SpecialHandling \in e.scaleSignal
                THEN SetCelRect(m, i,
                         GetCelSpecialHoyle4Rect(e.viewId, e.loopNo, e.celNo,
                                                 e.x, e.y, e.z, m.obj[e.object].ns),
                         FALSE)
                ELSE SetCelRect(m, i,
                         GetCelRect(e.viewId, e.loopNo, e.celNo, e.x, e.y, e.z), TRUE)

\* the invalidation predicate of GfxAnimate::fill
FillInvalidates(sig) ==
    IF kSignalNoUpdate \in sig
        THEN \/ sig \cap {kSignalForceUpdate, kSignalViewUpdated} # {}
             \/ (kSignalHidden \in sig /\ kSignalRemoveView \notin sig)
             \/ (kSignalHidden \notin sig /\ kSignalRemoveView \in sig)
             \/ kSignalAlwaysUpdate \in sig
        ELSE kSignalStopUpdate \in sig \/ kSignalAlwaysUpdate \in sig

\* fill: the priority of an entry whose priority is not fixed
FillPriority(m, i) ==
    LET e == m.list[i]
        prio == CoordinateToPriority(e.y)
    IN  IF kSignalFixedPriority \notin e.signal
            THEN WriteSelector([m EXCEPT !.list[i].priority = prio],
                               e.object, "priority", ToU16(prio))
            ELSE m

\* fill: count the invalidation (old_picNotValid is a byte) and clear one bit
FillSignal(m, i) ==
    LET sig == m.list[i].signal
    IN  [m EXCEPT !.oldPic = IF FillInvalidates(sig) THEN (@ + 1) % 256 ELSE @,
                  !.list[i].signal = IF kSignalNoUpdate \in sig
                                         THEN sig \ {kSignalStopUpdate}
                                         ELSE sig \ {kSignalForceUpdate}]

FillAfterScaling(m, i) ==
    IF m.fatal THEN m ELSE FillSignal(FillPriority(setNsRect(m, i), i), i)

\* one iteration of the loop of GfxAnimate::fill
FillEntry(m, i) ==
    FillAfterScaling(processViewScaling(adjustInvalidCels(m, i), i), i)

\* GfxAnimate::fill: entries i..end, stopping at a fatal error
RECURSIVE FillRange(_, _, _)
FillRange(m, lo, hi) ==
    IF lo > hi \/ m.fatal THEN m
    ELSE IF lo = hi THEN FillEntry(m, lo)
    ELSE FillRange(FillRange(m, lo, (lo + hi) \div 2), ((lo + hi) \div 2) + 1, hi)

FillFrom(m, i) == FillRange(m, i, Len(m.list))

fill(m) == FillFrom(m, 1)

\* ------------------------------------------------------ the update passes
\* the priority-marker strip below a drawn cel
MarkerRect(e) ==
    [e.celRect EXCEPT !.top = Clip(PriorityToCoordinate(e.priority) - 1,
                                   e.celRect.top, e.celRect.bottom - 1)]

Pass1BitsFreesWhenInvalid(m, i) ==
    LET e == m.list[i]
        bitsHandle == m.obj[e.object].underBits
    IN  IF kSignalRemoveView \notin e.signal
            THEN WriteSelector(
                     IF m.picNotValid = 0
                         THEN [BitsRestore(m, e.object, bitsHandle)
                                  EXCEPT !.list[i].showBitsFlag = TRUE]
                         ELSE BitsFree(m, e.object, bitsHandle),
                     e.object, "underBits", 0)
            ELSE m

\* first loop of update(): give back the background of a NoUpdate entry
Pass1Bits(m, i) ==
    LET e == m.list[i]
        bitsHandle == m.obj[e.object].underBits
    IN  IF kSignalRemoveView \notin e.signal
            THEN WriteSelector(
                     IF m.picNotValid # 1
                         THEN [BitsRestore(m, e.object, bitsHandle)
                                  EXCEPT !.list[i].showBitsFlag = TRUE]
                         ELSE BitsFree(m, e.object, bitsHandle),
                     e.object, "underBits", 0)
            ELSE m

Pass1Signal(m, i) ==
    LET sig == m.list[i].signal \ {kSignalForceUpdate}
    IN  [m EXCEPT !.list[i].signal =
            IF kSignalViewUpdated \in sig
                THEN sig \ {kSignalViewUpdated, kSignalNoUpdate}
                ELSE sig]

\* GfxAnimate::update, first loop (reverse order): one entry
Pass1Entry(m, i) ==
    LET sig == m.list[i].signal
    IN  IF kSignalNoUpdate \in sig
            THEN Pass1Signal(Pass1Bits(m, i), i)
            ELSE IF kSignalStopUpdate \in sig
                     THEN [m EXCEPT !.list[i].signal =
                               (sig \ {kSignalStopUpdate}) \cup {kSignalNoUpdate}]
                     ELSE m

RECURSIVE Pass1Range(_, _, _)
Pass1Range(m, lo, hi) ==
    IF lo > hi \/ lo > Len(m.list) THEN m
    ELSE IF lo = hi THEN Pass1Entry(m, lo)
    ELSE Pass1Range(Pass1Range(m, ((lo + hi) \div 2) + 1, hi), lo, (lo + hi) \div 2)

Pass1From(m, i) == Pass1Range(m, 1, i)

UpdatePass1(m) == Pass1From(m, Len(m.list))

\* draw a cel and, unless the entry ignores actors, its priority-marker strip
DrawWithMarker(m, i) ==
    LET e == m.list[i]
    IN  IF kSignalIgnoreActor \notin e.signal
            THEN FillRect([DrawCel(m, e.object) EXCEPT !.list[i].showBitsFlag = TRUE],
                          e.object)
            ELSE [DrawCel(m, e.object) EXCEPT !.list[i].showBitsFlag = TRUE]

Pass2EntryKeepsNoUpdate(m, i) ==
    IF kSignalAlwaysUpdate \in m.list[i].signal
        THEN DrawWithMarker(
                 [m EXCEPT !.list[i].signal =
                     @ \ {kSignalStopUpdate, kSignalViewUpdated, kSignalForceUpdate}], i)
        ELSE m

\* second loop: draw always-update cels
Pass2Entry(m, i) ==
    IF kSignalAlwaysUpdate \in m.list[i].signal
        THEN DrawWithMarker(
                 [m EXCEPT !.list[i].signal =
                     @ \ {kSignalStopUpdate, kSignalViewUpdated, kSignalNoUpdate,
                          kSignalForceUpdate}], i)
        ELSE m

RECURSIVE Pass2Range(_, _, _)
Pass2Range(m, lo, hi) ==
    IF lo > hi \/ lo > Len(m.list) THEN m
    ELSE IF lo = hi THEN Pass2Entry(m, lo)
    ELSE Pass2Range(Pass2Range(m, lo, (lo + hi) \div 2), ((lo + hi) \div 2) + 1, hi)

Pass2From(m, i) == Pass2Range(m, i, Len(m.list))

UpdatePass2(m) == Pass2From(m, 1)

\* bitsSave of an entry's cel rectangle, the handle stored in underBits
SaveUnderAs(m, o, planes, h) ==
    WriteSelector(Emit([m EXCEPT !.live = @ \cup {h}], Ev("save", o, planes, h)),
                  o, "underBits", h)

SaveUnderForgetsHandle(m, o, planes) ==
    Emit([m EXCEPT !.live = @ \cup {FreshHandle(m.live)}],
         Ev("save", o, planes, FreshHandle(m.live)))

SaveUnder(m, o, planes) == SaveUnderAs(m, o, planes, FreshHandle(m.live))

Pass3EntrySavesHidden(m, i) ==
    LET e == m.list[i]
    IN  IF kSignalNoUpdate \in e.signal
            THEN SaveUnder([m EXCEPT !.list[i].signal =
                               IF kSignalHidden \in e.signal
                                   THEN @ \cup {kSignalRemoveView}
                                   ELSE @ \ {kSignalRemoveView}],
                           e.object,
                           IF kSignalIgnoreActor \in e.signal
                               THEN "visual+priority" ELSE "all")
            ELSE m

Pass3EntryDrawsAtOnce(m, i) ==
    LET e == m.list[i]
    IN  IF kSignalNoUpdate \in e.signal
            THEN IF kSignalHidden \in e.signal
                     THEN [m EXCEPT !.list[i].signal = @ \cup {kSignalRemoveView}]
                     ELSE DrawWithMarker(
                              SaveUnder([m EXCEPT !.list[i].signal = @ \ {kSignalRemoveView}],
                                        e.object,
                                        IF kSignalIgnoreActor \in e.signal
                                            THEN "visual+priority" ELSE "all"), i)
            ELSE m

\* third loop: save the background of all NoUpdate cels
Pass3Entry(m, i) ==
    LET e == m.list[i]
    IN  IF kSignalNoUpdate \in e.signal
            THEN IF kSignalHidden \in e.signal
                     THEN [m EXCEPT !.list[i].signal = @ \cup {kSignalRemoveView}]
                     ELSE SaveUnder([m EXCEPT !.list[i].signal = @ \ {kSignalRemoveView}],
                                    e.object,
                                    IF kSignalIgnoreActor \in e.signal
                                        THEN "visual+priority" ELSE "all")
            ELSE m

RECURSIVE Pass3Range(_, _, _)
Pass3Range(m, lo, hi) ==
    IF lo > hi \/ lo > Len(m.list) THEN m
    ELSE IF lo = hi THEN Pass3Entry(m, lo)
    ELSE Pass3Range(Pass3Range(m, lo, (lo + hi) \div 2), ((lo + hi) \div 2) + 1, hi)

Pass3From(m, i) == Pass3Range(m, i, Len(m.list))

UpdatePass3(m) == Pass3From(m, 1)

Pass4EntryTakesAlwaysUpdate(m, i) ==
    LET sig == m.list[i].signal
    IN  IF sig \cap {kSignalNoUpdate, kSignalAlwaysUpdate} # {} /\ kSignalHidden \notin sig
            THEN DrawWithMarker(m, i)
            ELSE m

\* fourth loop: draw the NoUpdate cels
Pass4Entry(m, i) ==
    LET sig == m.list[i].signal
    IN  IF kSignalNoUpdate \in sig /\ kSignalHidden \notin sig
            THEN DrawWithMarker(m, i)
            ELSE m

RECURSIVE Pass4Range(_, _, _)
Pass4Range(m, lo, hi) ==
    IF lo > hi \/ lo > Len(m.list) THEN m
    ELSE IF lo = hi THEN Pass4Entry(m, lo)
    ELSE Pass4Range(Pass4Range(m, lo, (lo + hi) \div 2), ((lo + hi) \div 2) + 1, hi)

Pass4From(m, i) == Pass4Range(m, i, Len(m.list))

UpdatePass4(m) == Pass4From(m, 1)

\* ---------------------------------------------------------------- drawCels
RememberCastInFront(m, i) == [m EXCEPT !.lastCastData = <<m.list[i]>> \o @]

\* "Remember that entry in lastCast"
RememberCast(m, i) == [m EXCEPT !.lastCastData = Append(@, m.list[i])]

DrawCelsDraw(m, i) ==
    [DrawCel(m, m.list[i].object)
        EXCEPT !.list[i].showBitsFlag = TRUE,
               !.list[i].signal = @ \ {kSignalRemoveView}]

DrawCelsEntryTakesAlwaysUpdate(m, i) ==
    LET e == m.list[i]
    IN  IF e.signal \cap {kSignalNoUpdate, kSignalHidden} = {}
            THEN RememberCast(DrawCelsDraw(SaveUnder(m, e.object, "all"), i), i)
            ELSE m

DrawCelsEntry(m, i) ==
    LET e == m.list[i]
    IN  IF e.signal \cap {kSignalNoUpdate, kSignalHidden, kSignalAlwaysUpdate} = {}
            THEN RememberCast(DrawCelsDraw(SaveUnder(m, e.object, "all"), i), i)
            ELSE m

RECURSIVE DrawCelsRange(_, _, _)
DrawCelsRange(m, lo, hi) ==
    IF lo > hi \/ lo > Len(m.list) THEN m
    ELSE IF lo = hi THEN DrawCelsEntry(m, lo)
    ELSE DrawCelsRange(DrawCelsRange(m, lo, (lo + hi) \div 2), ((lo + hi) \div 2) + 1, hi)

DrawCelsFrom(m, i) == DrawCelsRange(m, i, Len(m.list))

drawCels(m) == DrawCelsFrom([m EXCEPT !.lastCastData = <<>>], 1)

\* ------------------------------------------------------------ updateScreen
UpdateScreenSelectsOnInvalid(e, oldPicNotValid) ==
    \/ e.showBitsFlag
    \/ e.signal \cap {kSignalRemoveView, kSignalNoUpdate} = {}
    \/ (kSignalRemoveView \notin e.signal /\ kSignalNoUpdate \in e.signal
        /\ oldPicNotValid # 0)

UpdateScreenSelects(e, oldPicNotValid) ==
    \/ e.showBitsFlag
    \/ ~(\/ e.signal \cap {kSignalRemoveView, kSignalNoUpdate} # {}
         \/ (kSignalRemoveView \notin e.signal /\ kSignalNoUpdate \in e.signal
             /\ oldPicNotValid # 0))

RectsOverlap(lsRect, celRect) == ~RectIsEmpty(RectClip(lsRect, celRect))

\* the old rectangle is shown on its own when it does not touch the new one
ShowOldRect(m, lsRect, celRect) ==
    IF RectsOverlap(lsRect, celRect) THEN m ELSE BitsShow(m, lsRect)

WorkerRectNewOnly(lsRect, celRect) == celRect

WorkerRect(lsRect, celRect) ==
    IF RectsOverlap(lsRect, celRect) THEN RectExtend(lsRect, celRect) ELSE celRect

UpdateScreenHiddenKeepsSignal(m, i) == m

UpdateScreenHidden(m, i) ==
    IF kSignalHidden \in m.list[i].signal
        THEN [m EXCEPT !.list[i].signal = @ \cup {kSignalRemoveView}]
        ELSE m

UpdateScreenEntry(m, i) ==
    LET e == m.list[i]
        lsRect == m.obj[e.object].ls
    IN  IF UpdateScreenSelects(e, m.oldPic)
            THEN UpdateScreenHidden(
                     BitsShow(WriteSelector(ShowOldRect(m, lsRect, e.celRect),
                                            e.object, "ls", e.celRect),
                              WorkerRect(lsRect, e.celRect)), i)
            ELSE m

RECURSIVE UpdateScreenRange(_, _, _)
UpdateScreenRange(m, lo, hi) ==
    IF lo > hi \/ lo > Len(m.list) THEN m
    ELSE IF lo = hi THEN UpdateScreenEntry(m, lo)
    ELSE UpdateScreenRange(UpdateScreenRange(m, lo, (lo + hi) \div 2), ((lo + hi) \div 2) + 1, hi)

UpdateScreenFrom(m, i) == UpdateScreenRange(m, i, Len(m.list))

updateScreen(m) == UpdateScreenFrom(m, 1)

\* -------------------------------------------------------- restoreAndDelete
\* first loop: write every entry's signal to its object
RECURSIVE RestoreForwardRange(_, _, _)
RestoreForwardRange(m, lo, hi) ==
    IF lo > hi \/ lo > Len(m.list) THEN m
    ELSE IF lo = hi THEN WriteSelector(m, m.list[lo].object, "signal", m.list[lo].signal)
    ELSE RestoreForwardRange(RestoreForwardRange(m, lo, (lo + hi) \div 2),
                             ((lo + hi) \div 2) + 1, hi)

RestoreForwardFrom(m, i) == RestoreForwardRange(m, i, Len(m.list))

StaleSignal(m, i) == m.list[i].signal

\* second loop: "We read out signal here again"
ReadSignal(m, i) == m.obj[m.list[i].object].signal

RestoreReread(m, i) ==
    Emit([m EXCEPT !.list[i].signal = ReadSignal(m, i)],
         Ev("readSignal", m.list[i].object, "signal", ReadSignal(m, i)))

RestoreBitsKeepsHandle(m, i) ==
    LET o == m.list[i].object
    IN  IF m.list[i].signal \cap {kSignalNoUpdate, kSignalRemoveView} = {}
            THEN BitsRestore(m, o, m.obj[o].underBits)
            ELSE m

\* second loop: give back the background of an entry that was drawn
RestoreBits(m, i) ==
    LET o == m.list[i].object
    IN  IF m.list[i].signal \cap {kSignalNoUpdate, kSignalRemoveView} = {}
            THEN WriteSelector(BitsRestore(m, o, m.obj[o].underBits), o, "underBits", 0)
            ELSE m

RestoreDispose(m, i) ==
    IF kSignalDisposeMe \in m.list[i].signal
        THEN Emit(m, Ev("dispose", m.list[i].object, "delete_", 0))
        ELSE m

RestoreReverseEntryDisposesFirst(m, i) ==
    RestoreBits(RestoreDispose(RestoreReread(m, i), i), i)

\* second loop (reverse order), one entry, up to the call of delete_
RestoreReverseEntry(m, i) == RestoreDispose(RestoreBits(RestoreReread(m, i), i), i)

\* --------------------------------------------------------------- reAnimate
ReAnimateSaveAs(m, i, h) ==
    DrawCel(Emit([m EXCEPT !.live = @ \cup {h}, !.lastCastData[i].castHandle = h],
                 Ev("save", m.lastCastData[i].object, "visual+priority", h)),
            m.lastCastData[i].object)

RECURSIVE ReAnimateSaveRange(_, _, _)
ReAnimateSaveRange(m, lo, hi) ==
    IF lo > hi \/ lo > Len(m.lastCastData) THEN m
    ELSE IF lo = hi THEN ReAnimateSaveAs(m, lo, FreshHandle(m.live))
    ELSE ReAnimateSaveRange(ReAnimateSaveRange(m, lo, (lo + hi) \div 2), ((lo + hi) \div 2) + 1, hi)

ReAnimateSaveFrom(m, i) == ReAnimateSaveRange(m, i, Len(m.lastCastData))

RECURSIVE ReAnimateRestoreRange(_, _, _)
ReAnimateRestoreRange(m, lo, hi) ==
    IF lo > hi \/ lo > Len(m.lastCastData) THEN m
    ELSE IF lo = hi THEN BitsRestore(m, m.lastCastData[lo].object, m.lastCastData[lo].castHandle)
    ELSE ReAnimateRestoreRange(ReAnimateRestoreRange(m, ((lo + hi) \div 2) + 1, hi),
                               lo, (lo + hi) \div 2)

ReAnimateRestoreFrom(m, i) == ReAnimateRestoreRange(m, 1, i)

ReAnimateRestoreForward(m) ==
    [ReAnimateRestoreFrom(
         [m EXCEPT !.lastCastData =
             [k \in 1..Len(@) |-> @[Len(@) + 1 - k]]], Len(m.lastCastData))
        EXCEPT !.lastCastData = m.lastCastData]

\* reAnimate: "restoring", from the last entry back to the first
ReAnimateRestore(m) == ReAnimateRestoreFrom(m, Len(m.lastCastData))

reAnimate(m, rect) ==
    IF m.lastCastData # <<>>
        THEN ReAnimateRestore(BitsShow(ReAnimateSaveFrom(m, 1), rect))
        ELSE BitsShow(m, rect)

\* ------------------------------------------------------------- add to pic
AddToPicPriority(m, i) ==
    IF m.list[i].priority = -1
        THEN [m EXCEPT !.list[i].priority = CoordinateToPriority(m.list[i].y)]
        ELSE m

AddToPicScaleable(m, i) ==
    IF ~ViewIsScaleable(m.list[i].viewId)
        THEN [m EXCEPT !.list[i].scaleSignal = {},
                       !.list[i].scaleY = 128, !.list[i].scaleX = 128]
        ELSE m

AddToPicGlobalScaling(m, i) ==
    IF kScaleSignalDoScaling \in m.list[i].scaleSignal
       /\ kScaleSignalGlobalScaling \in m.list[i].scaleSignal
        THEN applyGlobalScaling(m, i)
        ELSE m

AddToPicRect(m, i) ==
    LET e == m.list[i]
    IN  IF kScaleSignalDoScaling \in e.scaleSignal
            THEN SetCelRect(m, i,
                     GetCelScaledRect(e.viewId, e.loopNo, e.celNo, e.x, e.y, e.z,
                                      e.scaleX, e.scaleY), TRUE)
            ELSE SetCelRect(m, i,
                     GetCelRect(e.viewId, e.loopNo, e.celNo, e.x, e.y, e.z), FALSE)

AddToPicDraw(m, i) ==
    LET e == m.list[i]
    IN  IF kSignalIgnoreActor \notin e.signal
            THEN FillRect([DrawCel(m, e.object) EXCEPT !.list[i].celRect = MarkerRect(e)],
                          e.object)
            ELSE DrawCel(m, e.object)

AddToPicAfterScaling(m, i) ==
    IF m.fatal THEN m ELSE AddToPicDraw(AddToPicRect(m, i), i)

AddToPicEntrySkipsHidden(m, i) ==
    IF kSignalHidden \in m.list[i].signal
        THEN m
        ELSE AddToPicAfterScaling(
                 AddToPicGlobalScaling(AddToPicScaleable(AddToPicPriority(m, i), i), i),
                 i)

\* one iteration of the loop of GfxAnimate::addToPicDrawCels
AddToPicEntry(m, i) ==
    AddToPicAfterScaling(
        AddToPicGlobalScaling(AddToPicScaleable(AddToPicPriority(m, i), i), i), i)

RECURSIVE AddToPicRange(_, _, _)
AddToPicRange(m, lo, hi) ==
    IF lo > hi \/ m.fatal THEN m
    ELSE IF lo = hi THEN AddToPicEntry(m, lo)
    ELSE AddToPicRange(AddToPicRange(m, lo, (lo + hi) \div 2), ((lo + hi) \div 2) + 1, hi)

AddToPicFrom(m, i) == AddToPicRange(m, i, Len(m.list))

addToPicDrawCels(m) == AddToPicFrom(m, 1)

AddToPicNotValidValueStrict == IF version < SCI_VERSION_1_EARLY THEN 1 ELSE 2

\* GfxAnimate::addToPicSetPicNotValid
AddToPicNotValidValue == IF version <= SCI_VERSION_1_EARLY THEN 1 ELSE 2

\* ------------------------------------------------------------ the actions
\* the handlers' results become the next state
Apply(m) ==
    /\ obj' = m.obj
    /\ list' = m.list
    /\ lastCastData' = m.lastCastData
    /\ log' = m.log
    /\ live' = m.live
    /\ picNotValid' = m.picNotValid

Locals(op, path, old, cyc, oldPort) ==
    [op |-> op, path |-> path, old_picNotValid |-> old, cycle |-> cyc,
     oldPort |-> oldPort, rect |-> ZeroRect, nodes |-> nodes]

\* a kernel call starts with an empty effect log
Start == [Cur EXCEPT !.log = <<>>, !.fatal = FALSE]

\* GfxAnimate::animateShowPic (GfxTransitions::doit ends with _picNotValid = 0)
animateShowPic(m) == Emit([m EXCEPT !.picNotValid = 0], Ev("showPic", 0, "", 0))

ListRefs == {"null", "list", "nonlist"}

\* kernelAnimate, its first lines: the PalVary delay and update
KernelAnimatePrologue(m) ==
    LET m1 == IF m.picNotValid # 0 THEN Emit(m, Ev("delayForPalVary", 0, "", 0)) ELSE m
    IN  IF version >= SCI_VERSION_1_1
            THEN Emit(m1, Ev("palVaryUpdate", 0, "", 0))
            ELSE m1

KernelAnimateNullKeepsCast(m) ==
    IF m.picNotValid # 0 THEN animateShowPic(m) ELSE m

\* kernelAnimate with a null list reference
KernelAnimateNull(m) ==
    IF m.picNotValid # 0
        THEN animateShowPic([m EXCEPT !.lastCastData = <<>>])
        ELSE [m EXCEPT !.lastCastData = <<>>]

KernelAnimateEntryNullTestLate(m, listReference, cycle) ==
    IF listReference = "null"
        THEN /\ Apply(KernelAnimateNull(m))
             /\ pc' = "idle"
             /\ loc' = Locals("animate", "null", picNotValid, cycle, port)
        ELSE IF listReference = "nonlist"
            THEN /\ Apply(Emit(KernelAnimateNull(m), Ev("error", 0, "non-list", 0)))
                 /\ pc' = "fatal"
                 /\ loc' = Locals("animate", "fatal", picNotValid, cycle, port)
            ELSE /\ Apply(m)
                 /\ pc' = IF cycle THEN "invoke" ELSE "build"
                 /\ loc' = Locals("animate", "full", picNotValid, cycle, port)

\* kernelAnimate: the three kinds of list reference
KernelAnimateEntry(m, listReference, cycle) ==
    IF listReference = "null"
        THEN /\ Apply(KernelAnimateNull(m))
             /\ pc' = "idle"
             /\ loc' = Locals("animate", "null", picNotValid, cycle, port)
        ELSE IF listReference = "nonlist"
            THEN /\ Apply(Emit(m, Ev("error", 0, "non-list", 0)))
                 /\ pc' = "fatal"
                 /\ loc' = Locals("animate", "fatal", picNotValid, cycle, port)
            ELSE /\ Apply(m)
                 /\ pc' = IF cycle THEN "invoke" ELSE "build"
                 /\ loc' = Locals("animate", "full", picNotValid, cycle, port)

\* GfxAnimate::kernelAnimate up to the first list walk
KernelAnimate ==
    /\ pc = "idle"
    /\ calls < MaxCalls
    /\ \E listReference \in ListRefs, cycle \in BOOLEAN :
         KernelAnimateEntry(KernelAnimatePrologue(Start), listReference, cycle)
    /\ idx' = 1
    /\ calls' = calls + 1
    /\ UNCHANGED <<envVars, nodes, fastCastGlobal, abortScriptProcessing, port,
                   throttleTrigger, built, effects>>

\* what a doit method may do besides returning
DoitEffects ==
    {"none"} \cup (IF effects < MaxScriptEffects
                       THEN {"abort", "removeSelf", "setFastCast"} ELSE {})

RemoveAt(s, i) == SubSeq(s, 1, i - 1) \o SubSeq(s, i + 1, Len(s))

WalkOnAfterRemoval(eff, aborted, i) ==
    IF aborted
        THEN [pc |-> "build", idx |-> i]
        ELSE IF eff = "removeSelf"
            THEN [pc |-> "invoke", idx |-> i]
            ELSE [pc |-> "invoke", idx |-> i + 1]

\* invoke, after doit returned: the walk ends when processing was aborted or
\* the node is gone, and goes on to the successor otherwise
WalkAfterDoit(eff, aborted, i) ==
    IF aborted
        THEN [pc |-> "build", idx |-> i]
        ELSE IF eff = "removeSelf"
            THEN [pc |-> "build", idx |-> i]
            ELSE [pc |-> "invoke", idx |-> i + 1]

InvokeTestsGlobalOnly ==
    /\ pc = "invoke"
    /\ IF idx > Len(nodes)
           THEN /\ pc' = "build"
                /\ UNCHANGED <<idx, loc, log, nodes, fastCastGlobal,
                               abortScriptProcessing, effects>>
           ELSE IF fastCastGlobal
               THEN /\ pc' = "idle"
                    /\ loc' = [loc EXCEPT !.path = "fastCast"]
                    /\ UNCHANGED <<idx, log, nodes, fastCastGlobal,
                                   abortScriptProcessing, effects>>
               ELSE IF kSignalFrozen \in obj[nodes[idx]].signal
                   THEN /\ idx' = idx + 1
                        /\ UNCHANGED <<pc, loc, log, nodes, fastCastGlobal,
                                       abortScriptProcessing, effects>>
                   ELSE \E eff \in DoitEffects :
                          /\ log' = Append(log, Ev("invoke", nodes[idx], "doit", 0))
                          /\ abortScriptProcessing' =
                                 (abortScriptProcessing \/ eff = "abort")
                          /\ fastCastGlobal' = (fastCastGlobal \/ eff = "setFastCast")
                          /\ nodes' = IF eff = "removeSelf"
                                          THEN RemoveAt(nodes, idx) ELSE nodes
                          /\ effects' = IF eff = "none" THEN effects ELSE effects + 1
                          /\ pc' = WalkAfterDoit(eff, abortScriptProcessing', idx).pc
                          /\ idx' = WalkAfterDoit(eff, abortScriptProcessing', idx).idx
                          /\ loc' = loc
    /\ UNCHANGED <<envVars, obj, picNotValid, list, lastCastData, port,
                   throttleTrigger, live, built, calls>>

\* GfxAnimate::invoke, one iteration of the walk (or its end)
Invoke ==
    /\ pc = "invoke"
    /\ IF idx > Len(nodes)
           THEN /\ pc' = "build"
                /\ UNCHANGED <<idx, loc, log, nodes, fastCastGlobal,
                               abortScriptProcessing, effects>>
           ELSE IF fastCastEnabled /\ fastCastGlobal
               THEN /\ pc' = "idle"
                    /\ loc' = [loc EXCEPT !.path = "fastCast"]
                    /\ UNCHANGED <<idx, log, nodes, fastCastGlobal,
                                   abortScriptProcessing, effects>>
               ELSE IF kSignalFrozen \in obj[nodes[idx]].signal
                   THEN /\ idx' = idx + 1
                        /\ UNCHANGED <<pc, loc, log, nodes, fastCastGlobal,
                                       abortScriptProcessing, effects>>
                   ELSE \E eff \in DoitEffects :
                          /\ log' = Append(log, Ev("invoke", nodes[idx], "doit", 0))
                          /\ abortScriptProcessing' =
                                 (abortScriptProcessing \/ eff = "abort")
                          /\ fastCastGlobal' = (fastCastGlobal \/ eff = "setFastCast")
                          /\ nodes' = IF eff = "removeSelf"
                                          THEN RemoveAt(nodes, idx) ELSE nodes
                          /\ effects' = IF eff = "none" THEN effects ELSE effects + 1
                          /\ pc' = WalkAfterDoit(eff, abortScriptProcessing', idx).pc
                          /\ idx' = WalkAfterDoit(eff, abortScriptProcessing', idx).idx
                          /\ loc' = loc
    /\ UNCHANGED <<envVars, obj, picNotValid, list, lastCastData, port,
                   throttleTrigger, live, built, calls>>

\* kernelAnimate: setPort, disposeLastCast, makeSortedList
Build ==
    /\ pc = "build"
    /\ port' = "picWind"
    /\ loc' = [loc EXCEPT !.oldPort = port]
    /\ Apply(Emit(makeSortedList([Cur EXCEPT !.lastCastData = <<>>], nodes),
                  Ev("makeSortedList", 0, "", Len(nodes))))
    /\ built' = obj
    /\ pc' = "fill"
    /\ UNCHANGED <<envVars, nodes, fastCastGlobal, abortScriptProcessing,
                   throttleTrigger, idx, calls, effects>>

PipelineUnchanged ==
    UNCHANGED <<envVars, nodes, fastCastGlobal, abortScriptProcessing, port,
                throttleTrigger, idx, built, calls, effects>>

FillDone(m) ==
    /\ Apply(m)
    /\ loc' = [loc EXCEPT !.old_picNotValid = m.oldPic]
    /\ pc' = IF m.fatal THEN "fatal"
             ELSE IF m.oldPic # 0 THEN "update1" ELSE "drawCels"

\* kernelAnimate: fill(old_picNotValid)
Fill ==
    /\ pc = "fill"
    /\ FillDone(fill(Cur))
    /\ PipelineUnchanged

\* kernelAnimate: beginUpdate and the first loop of update()
Update1 ==
    /\ pc = "update1"
    /\ Apply(UpdatePass1(IF version >= SCI_VERSION_1_EGA_ONLY
                             THEN Emit(Cur, Ev("beginUpdate", 0, "", 0)) ELSE Cur))
    /\ pc' = "update2"
    /\ UNCHANGED loc
    /\ PipelineUnchanged

Update2 ==
    /\ pc = "update2"
    /\ Apply(UpdatePass2(Cur))
    /\ pc' = "update3"
    /\ UNCHANGED loc
    /\ PipelineUnchanged

Update3 ==
    /\ pc = "update3"
    /\ Apply(UpdatePass3(Cur))
    /\ pc' = "update4"
    /\ UNCHANGED loc
    /\ PipelineUnchanged

EndUpdate(m) ==
    IF version >= SCI_VERSION_1_EGA_ONLY THEN Emit(m, Ev("endUpdate", 0, "", 0)) ELSE m

\* the last loop of update() and endUpdate
Update4 ==
    /\ pc = "update4"
    /\ Apply(EndUpdate(UpdatePass4(Cur)))
    /\ pc' = "drawCels"
    /\ UNCHANGED loc
    /\ PipelineUnchanged

ShowPicIfNotValid(m) == IF m.picNotValid # 0 THEN animateShowPic(m) ELSE m

\* kernelAnimate: drawCels, then animateShowPic if the picture is not valid
DrawCels ==
    /\ pc = "drawCels"
    /\ Apply(ShowPicIfNotValid(drawCels(Cur)))
    /\ pc' = "updateScreen"
    /\ UNCHANGED loc
    /\ PipelineUnchanged

\* kernelAnimate: updateScreen, then the first loop of restoreAndDelete
UpdateScreen ==
    /\ pc = "updateScreen"
    /\ Apply(updateScreen(Cur))
    /\ pc' = "restoreForward"
    /\ UNCHANGED loc
    /\ PipelineUnchanged

RestoreForward ==
    /\ pc = "restoreForward"
    /\ Apply(RestoreForwardFrom(Cur, 1))
    /\ pc' = IF Len(list) = 0 THEN "finish" ELSE "restoreReverse"
    /\ idx' = Len(list)
    /\ UNCHANGED loc
    /\ UNCHANGED <<envVars, nodes, fastCastGlobal, abortScriptProcessing, port,
                   throttleTrigger, built, calls, effects>>

\* what a delete_ method may do to the other objects of the list: flip one
\* signal bit of a sibling
DisposeToggles == {kSignalNoUpdate, kSignalRemoveView, kSignalDisposeMe}

DisposeEffects(o) ==
    {<<0, "">>} \cup
    (IF effects < MaxScriptEffects
         THEN {<<t, b>> : t \in {list[i].object : i \in 1..Len(list)} \ {o},
                          b \in DisposeToggles}
         ELSE {})

Toggle(sig, b) == IF b \in sig THEN sig \ {b} ELSE sig \cup {b}

DisposeApply(m, eff) ==
    IF eff[1] = 0 THEN m ELSE [m EXCEPT !.obj[eff[1]].signal = Toggle(@, eff[2])]

RestoreReverseDone(m, o) ==
    IF kSignalDisposeMe \in m.list[idx].signal
        THEN \E eff \in DisposeEffects(o) :
               /\ Apply(DisposeApply(m, eff))
               /\ effects' = IF eff[1] = 0 THEN effects ELSE effects + 1
        ELSE Apply(m) /\ effects' = effects

\* second loop of restoreAndDelete: entry idx, with the delete_ call it makes
RestoreReverse ==
    /\ pc = "restoreReverse"
    /\ RestoreReverseDone(RestoreReverseEntry(Cur, idx), list[idx].object)
    /\ idx' = idx - 1
    /\ pc' = IF idx = 1 THEN "finish" ELSE "restoreReverse"
    /\ UNCHANGED loc
    /\ UNCHANGED <<envVars, nodes, fastCastGlobal, abortScriptProcessing, port,
                   throttleTrigger, built, calls>>

FinishKeepsPort ==
    /\ pc = "finish"
    /\ log' = log \o <<Ev("updateScreen", 0, "eventManager", 0),
                       Ev("throttle", 0, "", 0)>>
    /\ throttleTrigger' = TRUE
    /\ pc' = "idle"
    /\ UNCHANGED <<envVars, obj, nodes, fastCastGlobal, abortScriptProcessing,
                   picNotValid, list, lastCastData, live, idx, loc, built,
                   calls, effects, port>>

\* kernelAnimate: event manager update, setPort(oldPort), throttle trigger
Finish ==
    /\ pc = "finish"
    /\ log' = log \o <<Ev("updateScreen", 0, "eventManager", 0),
                       Ev("setPort", 0, loc.oldPort, 0),
                       Ev("throttle", 0, "", 0)>>
    /\ port' = loc.oldPort
    /\ throttleTrigger' = TRUE
    /\ pc' = "idle"
    /\ UNCHANGED <<envVars, obj, nodes, fastCastGlobal, abortScriptProcessing,
                   picNotValid, list, lastCastData, live, idx, loc, built,
                   calls, effects>>

ScreenRect == Rect(0, 0, 320, 200)

\* the rectangles reAnimate is called with
ReAnimateRects == {ScreenRect, Rect(10, 20, 110, 60)}

\* GfxAnimate::reAnimate
ReAnimate ==
    /\ pc = "idle"
    /\ calls < MaxCalls
    /\ \E rect \in ReAnimateRects :
         /\ Apply(reAnimate(Start, rect))
         /\ loc' = [Locals("reAnimate", "full", picNotValid, FALSE, port)
                       EXCEPT !.rect = rect]
    /\ calls' = calls + 1
    /\ UNCHANGED <<envVars, nodes, fastCastGlobal, abortScriptProcessing, port,
                   throttleTrigger, pc, idx, built, effects>>

AddToPicListDone(m) ==
    /\ Apply(IF m.fatal THEN m ELSE [m EXCEPT !.picNotValid = AddToPicNotValidValue])
    /\ pc' = IF m.fatal THEN "fatal" ELSE "idle"
    /\ built' = obj
    /\ loc' = Locals("addToPicList", IF m.fatal THEN "fatal" ELSE "full",
                     picNotValid, FALSE, port)

\* GfxAnimate::kernelAddToPicList
KernelAddToPicList ==
    /\ pc = "idle"
    /\ calls < MaxCalls
    /\ \E listReference \in ListRefs :
         IF listReference # "list"
             THEN /\ Apply(Emit(Start, Ev("error", 0, "non-list", 0)))
                  /\ pc' = "fatal"
                  /\ built' = built
                  /\ loc' = Locals("addToPicList", "fatal", picNotValid, FALSE, port)
             ELSE AddToPicListDone(
                      addToPicDrawCels(
                          Emit(makeSortedList(Start, nodes),
                               Ev("makeSortedList", 0, "", Len(nodes)))))
    /\ port' = "picWind"
    /\ calls' = calls + 1
    /\ UNCHANGED <<envVars, nodes, fastCastGlobal, abortScriptProcessing,
                   throttleTrigger, idx, effects>>

\* GfxAnimate::addToPicDrawView
addToPicDrawView(m, control) ==
    IF control # -1
        THEN Emit(Emit(m, Ev("draw", 0, "", 0)), Ev("fillRect", 0, "control", control))
        ELSE Emit(m, Ev("draw", 0, "", 0))

\* GfxAnimate::kernelAddToPicView
KernelAddToPicView ==
    /\ pc = "idle"
    /\ calls < MaxCalls
    /\ \E control \in {-1, 3} :
         Apply([addToPicDrawView(Start, control)
                   EXCEPT !.picNotValid = AddToPicNotValidValue])
    /\ port' = "picWind"
    /\ loc' = Locals("addToPicView", "full", picNotValid, FALSE, port)
    /\ calls' = calls + 1
    /\ UNCHANGED <<envVars, nodes, fastCastGlobal, abortScriptProcessing,
                   throttleTrigger, pc, idx, built, effects>>

Next ==
    \/ KernelAnimate
    \/ Invoke
    \/ Build
    \/ Fill
    \/ Update1
    \/ Update2
    \/ Update3
    \/ Update4
    \/ DrawCels
    \/ UpdateScreen
    \/ RestoreForward
    \/ RestoreReverse
    \/ Finish
    \/ ReAnimate
    \/ KernelAddToPicList
    \/ KernelAddToPicView

\* ------------------------------------------------------------ initial states
DefaultObject(o) ==
    [view |-> 1, loop |-> 0, cel |-> 0, x |-> 40 * o, y |-> 100 + 10 * o, z |-> 0,
     priority |-> 0, signal |-> {}, scaleSignal |-> {}, scaleX |-> 128,
     scaleY |-> 128, maxScale |-> 128, underBits |-> 0, ls |-> ZeroRect,
     ns |-> ZeroRect]

\* the cast list holds the first n objects
CastLists == {[i \in 1..n |-> i] : n \in 0..NumObjects}

\* GfxAnimate::init
FastCastChoices(v) ==
    IF v = SCI_VERSION_1_1 THEN {TRUE}
    ELSE IF v >= SCI_VERSION_1_EARLY THEN BOOLEAN ELSE {FALSE}

InitControl ==
    /\ list = <<>>
    /\ lastCastData = <<>>
    /\ port = "menu"
    /\ throttleTrigger = FALSE
    /\ live = {}
    /\ pc = "idle"
    /\ idx = 1
    /\ loc = [op |-> "none", path |-> "none", old_picNotValid |-> 0,
              cycle |-> FALSE, oldPort |-> "menu", rect |-> ZeroRect,
              nodes |-> <<>>]
    /\ log = <<>>
    /\ abortScriptProcessing = FALSE
    /\ fastCastGlobal = FALSE

\* one kernel call is left and the scripts' methods have no side effects
InitSingleCall ==
    /\ InitControl
    /\ calls = MaxCalls - 1
    /\ effects = MaxScriptEffects

InitPlainRoom ==
    /\ version = SCI_VERSION_1_1
    /\ fastCastEnabled \in FastCastChoices(version)
    /\ hoyle4 = FALSE
    /\ vanishingY = 100
    /\ portBottom = 200

CoreSignals == {kSignalStopUpdate, kSignalViewUpdated, kSignalNoUpdate, kSignalHidden,
                kSignalAlwaysUpdate, kSignalForceUpdate, kSignalRemoveView}

SiblingSignal(o) ==
    CASE o % 3 = 2 -> {kSignalDisposeMe}
      [] o % 3 = 0 -> {kSignalIgnoreActor, kSignalFrozen}
      [] OTHER -> {kSignalNoUpdate}

CastOf(sig1) ==
    [o \in Objects |->
        [DefaultObject(o) EXCEPT !.signal = IF o = 1 THEN sig1 ELSE SiblingSignal(o)]]

\* Sequences of kernel calls in several engine versions, on a cast whose first
\* object stands before or between the others.
Init ==
    /\ InitControl
    /\ calls = 0
    /\ effects = 0
    /\ version \in {SCI_VERSION_0_LATE, SCI_VERSION_1_EARLY, SCI_VERSION_1_1}
    /\ fastCastEnabled \in FastCastChoices(version)
    /\ hoyle4 = FALSE
    /\ vanishingY = 100
    /\ portBottom = 200
    /\ picNotValid = 0
    /\ nodes \in CastLists
    /\ \E y1 \in {110, 125} : obj = [CastOf({}) EXCEPT ![1].y = y1]
    /\ built = obj

Spec == Init /\ [][Next]_vars

\* One animate call for every combination of the update signals of one entry.
InitSignals ==
    /\ InitSingleCall
    /\ InitPlainRoom
    /\ picNotValid \in 0..2
    /\ nodes \in CastLists
    /\ \E s1 \in SUBSET CoreSignals : obj = CastOf(s1)
    /\ built = obj

SpecSignals == InitSignals /\ [][Next]_vars

\* One call on casts whose entries stand at equal, different and negative depths.
SortKeys == {<<20, 0>>, <<20, 5>>, <<10, 5>>, <<65530, 0>>}

InitSort ==
    /\ InitSingleCall
    /\ InitPlainRoom
    /\ picNotValid \in 0..1
    /\ nodes \in CastLists
    /\ \E k \in [Objects -> SortKeys] :
         obj = [o \in Objects |->
                   [DefaultObject(o) EXCEPT !.y = k[o][1], !.z = k[o][2]]]
    /\ built = obj

SpecSort == InitSort /\ [][Next]_vars

\* One call on casts whose loop and cel numbers are in range, too large or
\* negative, for each view.
LoopValues == {0, 1, 9, 65535}

CelValues == {0, 2, 7, 65534}

InitClamp ==
    /\ InitSingleCall
    /\ InitPlainRoom
    /\ picNotValid \in 0..1
    /\ nodes \in CastLists
    /\ \E v \in Views \ {3}, l \in LoopValues, c \in CelValues, l2 \in {1, 65535} :
         obj = [o \in Objects |->
                   IF o = 1
                       THEN [DefaultObject(o) EXCEPT !.view = v, !.loop = l, !.cel = c]
                       ELSE [DefaultObject(o) EXCEPT !.view = 2, !.loop = l2, !.cel = 3]]
    /\ built = obj

SpecClamp == InitClamp /\ [][Next]_vars

\* One call on casts whose first object asks for every kind of scaling, near,
\* on and above the vanishing line.
ScaleSignals == {{}, {kScaleSignalDoScaling},
                 {kScaleSignalDoScaling, kScaleSignalGlobalScaling}}

InitScale ==
    /\ InitSingleCall
    /\ version = SCI_VERSION_1_1
    /\ fastCastEnabled \in FastCastChoices(version)
    /\ hoyle4 = FALSE
    /\ vanishingY \in {100, 0, 200}
    /\ portBottom \in {200, 101}
    /\ picNotValid = 0
    /\ nodes \in CastLists
    /\ \E v \in Views, ss \in ScaleSignals, ms \in {128, 32767}, y1 \in {150, 99, 100} :
         obj = [o \in Objects |->
                   IF o = 1
                       THEN [DefaultObject(o) EXCEPT !.view = v, !.scaleSignal = ss,
                                                     !.maxScale = ms, !.y = y1,
                                                     !.scaleX = 64, !.scaleY = 200]
                       ELSE [DefaultObject(o) EXCEPT !.signal = {kSignalAlwaysUpdate}]]
    /\ built = obj

SpecScale == InitScale /\ [][Next]_vars


\* One call on casts whose first object carries every combination of the
\* signal bits that keep animate from drawing, with loop and cel numbers in
\* and out of range.
AddToPicSignals == {kSignalHidden, kSignalNoUpdate, kSignalAlwaysUpdate,
                    kSignalRemoveView}

InitAddToPic ==
    /\ InitSingleCall
    /\ InitPlainRoom
    /\ picNotValid \in 0..1
    /\ nodes \in CastLists
    /\ \E s1 \in SUBSET AddToPicSignals, l \in {0, 9, 65535}, c \in {0, 7} :
         obj = [o \in Objects |->
                   IF o = 1
                       THEN [DefaultObject(o) EXCEPT !.signal = s1, !.view = 2,
                                                     !.loop = l, !.cel = c]
                       ELSE [DefaultObject(o) EXCEPT !.signal = SiblingSignal(o),
                                                     !.view = 2, !.loop = 65535,
                                                     !.cel = 3]]
    /\ built = obj

SpecAddToPic == InitAddToPic /\ [][Next]_vars

\* One animate call on casts with several entries that the update passes act
\* on, in an engine version without and one with beginUpdate/endUpdate.
PassSignals == {{}, {kSignalNoUpdate}, {kSignalAlwaysUpdate}, {kSignalStopUpdate},
                {kSignalNoUpdate, kSignalHidden},
                {kSignalStopUpdate, kSignalAlwaysUpdate},
                {kSignalNoUpdate, kSignalViewUpdated, kSignalForceUpdate},
                {kSignalNoUpdate, kSignalRemoveView, kSignalForceUpdate}}

InitPhases ==
    /\ InitSingleCall
    /\ version \in {SCI_VERSION_0_LATE, SCI_VERSION_1_1}
    /\ fastCastEnabled \in FastCastChoices(version)
    /\ hoyle4 = FALSE
    /\ vanishingY = 100
    /\ portBottom = 200
    /\ picNotValid \in 0..2
    /\ nodes \in CastLists
    /\ \E s1 \in PassSignals, s2 \in PassSignals :
         obj = [o \in Objects |->
                   [DefaultObject(o) EXCEPT !.signal =
                       IF o = 1 THEN s1
                       ELSE IF o = 2 THEN s2
                       ELSE IF o = 3 THEN {kSignalNoUpdate, kSignalDisposeMe,
                                           kSignalIgnoreActor}
                       ELSE SiblingSignal(o)]]
    /\ built = obj

SpecPhases == InitPhases /\ [][Next]_vars

\* One animate call on casts of 2, LongCast - 1 and LongCast nodes whose
\* objects are all in AlwaysUpdate state, with or without StopUpdate (and
\* frozen, so that no doit runs).
LongCastLists ==
    {[i \in 1..n |-> ((i - 1) % NumObjects) + 1] : n \in {2, LongCast - 1, LongCast}}

InitLongCast ==
    /\ InitSingleCall
    /\ InitPlainRoom
    /\ picNotValid \in 0..2
    /\ nodes \in LongCastLists
    /\ \E s \in {{}, {kSignalStopUpdate}} :
          obj = [o \in Objects |->
                    [DefaultObject(o) EXCEPT !.signal = {kSignalAlwaysUpdate, kSignalFrozen} \cup s,
                                             !.y = 110]]
    /\ built = obj

SpecLongCast == InitLongCast /\ [][Next]_vars

\* One animate call on casts whose objects were last shown nowhere, in place,
\* overlapping, edge to edge with, or far from where they are drawn now.
LsRects == {ZeroRect, Rect(30, 71, 50, 111), Rect(40, 100, 60, 140),
            Rect(50, 71, 70, 111), ScreenRect}

ScreenSignals == {{}, {kSignalHidden}, {kSignalNoUpdate},
                  {kSignalNoUpdate, kSignalHidden}, {kSignalAlwaysUpdate},
                  {kSignalRemoveView}, {kSignalNoUpdate, kSignalRemoveView}}

InitScreen ==
    /\ InitSingleCall
    /\ InitPlainRoom
    /\ picNotValid \in 0..2
    /\ nodes \in CastLists
    /\ \E s1 \in ScreenSignals, ls1 \in LsRects, ls2 \in LsRects :
         obj = [CastOf(s1) EXCEPT ![1].ls = ls1, ![2].ls = ls2]
    /\ built = obj

SpecScreen == InitScreen /\ [][Next]_vars

\* ============================================================== properties
\* positions of the running call
AnimateFull == loc.op = "animate" /\ loc.path = "full"

\* fill has resolved every entry of the list of this animate call
AfterFill ==
    AnimateFull /\ pc \in {"update1", "update2", "update3", "update4", "drawCels",
                           "updateScreen", "restoreForward", "restoreReverse",
                           "finish", "idle"}

\* kernelAddToPicList has returned
AfterAddToPicList == pc = "idle" /\ loc.op = "addToPicList" /\ loc.path = "full"

\* the list was built from the cast list as it stands
JustBuilt == pc = "fill" \/ AfterAddToPicList

NodeIndex(o) == CHOOSE k \in 1..Len(nodes) : nodes[k] = o

\* the running call wrote selector f of object o
WroteSelector(o, f) ==
    \E k \in 1..Len(log) : log[k].op = "write" /\ log[k].o = o /\ log[k].f = f

EventsOf(ops) == {k \in 1..Len(log) : log[k].op \in ops}

\* ---- C1
KeyLess(a, b) ==
    \/ a.y < b.y
    \/ a.y = b.y /\ a.z < b.z
    \/ a.y = b.y /\ a.z = b.z /\ a.givenOrderNo < b.givenOrderNo

C2_OneEntryPerNode ==
    JustBuilt =>
        /\ Len(list) = Len(nodes)
        /\ \A k \in 1..Len(nodes) :
              Cardinality({i \in 1..Len(list) : list[i].object = nodes[k]}) = 1
        /\ \A i \in 1..Len(list) :
              /\ list[i].givenOrderNo \in 0..(Len(nodes) - 1)
              /\ nodes[list[i].givenOrderNo + 1] = list[i].object
              /\ pc = "fill" =>
                    /\ list[i].showBitsFlag = FALSE
                    /\ list[i].celRect = ZeroRect
                    /\ list[i].signal = obj[list[i].object].signal
                    /\ list[i].y = ToS16(obj[list[i].object].y)

\* the second call rebuilds a list that the first call composited, in an order
\* that differs from the traversal order
C2_Witness ==
    /\ pc = "fill"
    /\ calls = 2
    /\ Len(list) >= 2
    /\ list[1].givenOrderNo # 0
    /\ obj[list[1].object].ls # ZeroRect

\* ---- C3
ClampedTo(v, count) == IF v < 0 THEN count - 1 ELSE IF v >= count THEN 0 ELSE v

\* C3: after fill, every entry's loop is the clamped loop (negative: last loop,
\* not written back; too large: 0, written back; in range: unchanged, not
\* written), and its cel is clamped likewise against the resolved loop.
C3_Clamping ==
    AfterFill =>
        \A i \in 1..Len(list) :
            LET e == list[i]
                o == e.object
                loop0 == ToS16(built[o].loop)
                cel0 == ToS16(built[o].cel)
                loopCount == ViewLoopCount(e.viewId)
                celCount == ViewCelCount(e.viewId, e.loopNo)
            IN  /\ e.loopNo = ClampedTo(loop0, loopCount)
                /\ WroteSelector(o, "loop") <=> loop0 >= loopCount
                /\ obj[o].loop = IF loop0 >= loopCount THEN 0 ELSE built[o].loop
                /\ e.celNo = ClampedTo(cel0, celCount)
                /\ WroteSelector(o, "cel") <=> cel0 >= celCount
                /\ obj[o].cel = IF cel0 >= celCount THEN 0 ELSE built[o].cel

\* a negative loop resolved to the last loop, whose cel count keeps a cel that
\* loop 0 does not have; and a too large loop reset to 0
C3_Witness ==
    /\ AfterFill
    /\ \E i \in 1..Len(list) :
          /\ ToS16(built[list[i].object].loop) = -1
          /\ list[i].loopNo = 3
          /\ list[i].celNo = 2
          /\ ViewCelCount(list[i].viewId, 0) <= 2
    /\ \E i \in 1..Len(list) :
          /\ ToS16(built[list[i].object].loop) = -1
          /\ list[i].celNo = 3

\* ---- C4
\* C4: once geometry is resolved (fill, addToPicDrawCels), an entry of a view
\* that is not scalable has scale 128/128 and no scale signal, and its
\* object's scale selectors were not written.
C4_NonScalableUnity ==
    (AfterFill \/ AfterAddToPicList) =>
        \A i \in 1..Len(list) :
            ~ViewIsScaleable(list[i].viewId) =>
                /\ list[i].scaleX = 128
                /\ list[i].scaleY = 128
                /\ list[i].scaleSignal = {}
                /\ ~WroteSelector(list[i].object, "scaleX")
                /\ ~WroteSelector(list[i].object, "scaleY")
                /\ obj[list[i].object].scaleX = built[list[i].object].scaleX
                /\ obj[list[i].object].scaleY = built[list[i].object].scaleY

C4_NonScalableAsksGlobal(i) ==
    /\ ~ViewIsScaleable(list[i].viewId)
    /\ built[list[i].object].scaleSignal =
           {kScaleSignalDoScaling, kScaleSignalGlobalScaling}
    /\ built[list[i].object].scaleX # 128

C4_Witness ==
    /\ AfterFill
    /\ \E i \in 1..Len(list) : C4_NonScalableAsksGlobal(i)

\* ---- C5
\* geometry of every entry is resolved
GeometryResolved == AfterFill \/ AfterAddToPicList

\* applyGlobalScaling ran for entry i
GlobalApplied(i) ==
    /\ version >= SCI_VERSION_1_1
    /\ ViewIsScaleable(list[i].viewId)
    /\ {kScaleSignalDoScaling, kScaleSignalGlobalScaling}
           \subseteq built[list[i].object].scaleSignal

FloorDiv(a, b) == IF b > 0 THEN a \div b ELSE (-a) \div (-b)

TruncDiv(a, b) ==
    IF (a < 0) = (b < 0) THEN Abs(a) \div Abs(b) ELSE -(Abs(a) \div Abs(b))

Int16(v) == ((v + 32768) % 65536) - 32768

ScaleInputs(i) ==
    LET entryY == Int16(list[i].y - Int16(vanishingY))
    IN  [maxScale |-> Int16(built[list[i].object].maxScale),
         celHeight |-> ViewHeight(list[i].viewId, list[i].loopNo, list[i].celNo),
         fixedPortY |-> Int16(portBottom - Int16(vanishingY)),
         fixedEntryY |-> IF entryY = 0 THEN 1 ELSE entryY]

FloorScale(in) ==
    FloorDiv(FloorDiv(FloorDiv(in.maxScale * in.celHeight, 128) * in.fixedEntryY,
                      in.fixedPortY) * 128,
             in.celHeight)

TruncScale(in) ==
    Int16(TruncDiv(
        Int16(TruncDiv(Int16(FloorDiv(in.maxScale * in.celHeight, 128))
                           * in.fixedEntryY,
                       in.fixedPortY)) * 128,
        in.celHeight))

\* no input is negative and no intermediate value leaves the 16-bit range
ScaleInRange(in) ==
    /\ in.maxScale >= 0 /\ in.fixedEntryY > 0 /\ in.fixedPortY > 0
    /\ FloorDiv(in.maxScale * in.celHeight, 128) <= 32767
    /\ FloorDiv(FloorDiv(in.maxScale * in.celHeight, 128) * in.fixedEntryY,
                in.fixedPortY) <= 32767
    /\ FloorScale(in) <= 32767

\* entry i carries scale sc in both directions and its object got both written
ScaleSetTo(i, sc) ==
    /\ list[i].scaleY = sc
    /\ list[i].scaleX = sc
    /\ WroteSelector(list[i].object, "scaleX")
    /\ WroteSelector(list[i].object, "scaleY")
    /\ obj[list[i].object].scaleX = ToU16(sc)
    /\ obj[list[i].object].scaleY = ToU16(sc)

\* C5 as stated: global scaling sets scaleY to the floor formula for every
\* input, entries above the vanishing line included, with scaleX = scaleY and
\* both written to the object.
C5_FloorFormula ==
    GeometryResolved =>
        \A i \in 1..Len(list) :
            GlobalApplied(i) => ScaleSetTo(i, FloorScale(ScaleInputs(i)))

\* C5 amended: the two divisions truncate toward zero and every intermediate
\* is a signed 16-bit value; scaleX = scaleY and both are written to the
\* object. The result is the floor formula when no input is negative and
\* nothing overflows (128, 40, 100, 200, 150 gives 64).
C5_TruncatingFormula ==
    GeometryResolved =>
        \A i \in 1..Len(list) :
            GlobalApplied(i) =>
                /\ ScaleSetTo(i, TruncScale(ScaleInputs(i)))
                /\ ScaleInRange(ScaleInputs(i))
                       => list[i].scaleY = FloorScale(ScaleInputs(i))
                /\ ScaleInputs(i) = [maxScale |-> 128, celHeight |-> 40,
                                     fixedPortY |-> 100, fixedEntryY |-> 50]
                       => list[i].scaleY = 64

\* an entry above the vanishing line was scaled to 0 where the floor formula
\* gives a negative scale
C5_Witness ==
    /\ AfterFill
    /\ \E i \in 1..Len(list) :
          /\ GlobalApplied(i)
          /\ list[i].y < Int16(vanishingY)
          /\ list[i].scaleY = 0
          /\ FloorScale(ScaleInputs(i)) < 0
          /\ WroteSelector(list[i].object, "scaleY")

\* ---- C6
PanicCondition(i) ==
    ScaleInputs(i).celHeight = 0 \/ ScaleInputs(i).fixedPortY = 0

\* the call ended in the global scaling panic
Panicked ==
    /\ pc = "fatal"
    /\ log # <<>>
    /\ log[Len(log)].op = "error"
    /\ log[Len(log)].f = "global scaling panic"

PanicIndex == CHOOSE i \in 1..Len(list) : list[i].object = log[Len(log)].o

\* nothing of the call touched list entry j
Untouched(j) ==
    /\ list[j].celRect = ZeroRect
    /\ list[j].showBitsFlag = FALSE
    /\ obj[list[j].object] = built[list[j].object]
    /\ \A k \in 1..Len(log) :
          log[k].op \in {"write", "draw", "fillRect", "save", "restore", "free"}
              => log[k].o # list[j].object

\* C6: when global scaling applies to an entry and celHeight = 0 or
\* portBottom - vanishingY = 0, the call ends in the fatal error: the object's
\* scale is not written, and neither this entry nor any later one is resolved
\* or drawn; no call completes with such an entry.
C6_PanicBeforeDivision ==
    /\ Panicked =>
          /\ GlobalApplied(PanicIndex)
          /\ PanicCondition(PanicIndex)
          /\ list[PanicIndex].scaleX = Int16(built[list[PanicIndex].object].scaleX)
          /\ list[PanicIndex].scaleY = Int16(built[list[PanicIndex].object].scaleY)
          /\ \A j \in PanicIndex..Len(list) : Untouched(j)
          /\ \A j \in 1..(PanicIndex - 1) : ~(GlobalApplied(j) /\ PanicCondition(j))
    /\ GeometryResolved =>
          \A i \in 1..Len(list) : ~(GlobalApplied(i) /\ PanicCondition(i))
    /\ pc = "fatal" => ~ENABLED Next

\* a zero port height stopped fill at the first of three entries
C6_Witness ==
    /\ Panicked
    /\ loc.op = "animate"
    /\ Len(list) = 3
    /\ PanicIndex = 1
    /\ ScaleInputs(1).celHeight # 0
    /\ ScaleInputs(1).fixedPortY = 0

\* ---- C7
StopAlways(i) ==
    {kSignalStopUpdate, kSignalAlwaysUpdate} \subseteq built[list[i].object].signal

DrewObject(o) == \E k \in 1..Len(log) : log[k].op = "draw" /\ log[k].o = o

AfterPass1 == AnimateFull /\ pc = "update2"

AfterPass2 == AnimateFull /\ pc = "update3"

Pass2Done(i) ==
    /\ list[i].showBitsFlag
    /\ DrewObject(list[i].object)
    /\ list[i].signal \cap {kSignalNoUpdate, kSignalStopUpdate, kSignalViewUpdated,
                            kSignalForceUpdate} = {}

AfterReAnimate == pc = "idle" /\ loc.op = "reAnimate"

SaveAt(k) == log[2 * k - 1]

\* C8: reAnimate saves and draws the snapshot entries in snapshot order,
\* flushes the given rectangle once, then restores each saved handle once in
\* reverse order of saving; with an empty snapshot it only flushes.
C8_LifoRestore ==
    AfterReAnimate =>
        LET n == Len(lastCastData)
        IN  /\ Len(log) = 3 * n + 1
            /\ \A k \in 1..n :
                  /\ SaveAt(k).op = "save"
                  /\ SaveAt(k).o = lastCastData[k].object
                  /\ SaveAt(k).f = "visual+priority"
                  /\ SaveAt(k).v = lastCastData[k].castHandle
                  /\ log[2 * k].op = "draw"
                  /\ log[2 * k].o = lastCastData[k].object
                  /\ log[2 * n + 1 + k].op = "restore"
                  /\ log[2 * n + 1 + k].v = SaveAt(n + 1 - k).v
            /\ \A k, l \in 1..n : k # l => SaveAt(k).v # SaveAt(l).v
            /\ log[2 * n + 1] = Ev("show", 0, "", loc.rect)

C8_Witness ==
    /\ AfterReAnimate
    /\ Len(lastCastData) = 3
    /\ log[8].op = "restore"
    /\ log[8].o = lastCastData[3].object
    /\ log[10].o = lastCastData[1].object

\* ---- C9
InReversePass ==
    /\ AnimateFull
    /\ pc \in {"restoreReverse", "finish"}
    /\ idx < Len(list)

\* the entry the reverse pass has just processed
JustProcessed == idx + 1

FirstReread ==
    CHOOSE k \in EventsOf({"readSignal"}) :
        \A l \in EventsOf({"readSignal"}) : k <= l

\* event k of the reverse pass is of kind op and about object o
ReverseEvent(k, op, o) ==
    /\ k > FirstReread
    /\ log[k].op = op
    /\ log[k].o = o

\* C9: in restoreAndDelete all signal writes come before the first disposal
\* and before the first re-read; an entry is processed in the reverse pass on
\* the signal its object holds at that moment, changes made by an earlier
\* disposal of this call included.
C9_RereadSignal ==
    /\ \A k \in EventsOf({"write"}) :
          log[k].f = "signal" =>
              /\ \A d \in EventsOf({"dispose"}) : k < d
              /\ \A r \in EventsOf({"readSignal"}) : k < r
    /\ \A d \in EventsOf({"dispose"}) :
          \A i \in 1..Len(list) :
              \E k \in 1..(d - 1) : /\ log[k].op = "write"
                                    /\ log[k].f = "signal"
                                    /\ log[k].o = list[i].object
    /\ InReversePass =>
          LET e == list[JustProcessed]
          IN  /\ e.signal = obj[e.object].signal
              /\ (\E k \in 1..Len(log) : ReverseEvent(k, "restore", e.object))
                    <=> e.signal \cap {kSignalNoUpdate, kSignalRemoveView} = {}
              /\ (\E k \in 1..Len(log) : ReverseEvent(k, "dispose", e.object))
                    <=> kSignalDisposeMe \in e.signal

SignalWritten(o) ==
    log[CHOOSE k \in EventsOf({"write"}) : log[k].f = "signal" /\ log[k].o = o].v

\* a delete_ method set NoUpdate on a sibling after the compositor wrote that
\* sibling's signal, and the sibling was then processed without a restore
C9_Witness ==
    /\ InReversePass
    /\ EventsOf({"dispose"}) # {}
    /\ kSignalNoUpdate \in list[JustProcessed].signal
    /\ kSignalNoUpdate \notin SignalWritten(list[JustProcessed].object)
    /\ ~\E k \in 1..Len(log) : ReverseEvent(k, "restore", list[JustProcessed].object)

\* ---- C10
AfterNullAnimate == pc = "idle" /\ loc.op = "animate" /\ loc.path = "null"

\* C10: animate with a null list handle leaves no retained snapshot, shows the
\* picture once if the screen was marked invalid and not at all otherwise,
\* and does nothing else but the palette-vary bookkeeping: no doit, no list
\* building, drawing, save, restore, object write or disposal.
C10_NullListFastPath ==
    AfterNullAnimate =>
        /\ lastCastData = <<>>
        /\ Cardinality(EventsOf({"showPic"})) =
               IF loc.old_picNotValid # 0 THEN 1 ELSE 0
        /\ \A k \in 1..Len(log) :
              log[k].op \in {"delayForPalVary", "palVaryUpdate", "showPic"}

\* the null call came after a call that had retained a snapshot of its list
C10_Witness ==
    /\ AfterNullAnimate
    /\ calls = 2
    /\ Len(list) >= 2
    /\ \A i \in 1..Len(list) : list[i].showBitsFlag
    /\ lastCastData = <<>>

\* ---- C11
\* script processing was aborted during a doit call of the running animate call
AbortedInCallback ==
    /\ loc.op = "animate"
    /\ loc.cycle
    /\ abortScriptProcessing
    /\ EventsOf({"invoke"}) # {}

\* C11: when script processing is aborted during a behaviour callback, the
\* whole animate call is aborted: no later callback, no list rebuild, no
\* geometry resolution, drawing, screen flush, signal write or disposal.
C11_AbortEndsCall ==
    AbortedInCallback =>
        /\ \A k \in 1..Len(log) :
              log[k].op \in {"delayForPalVary", "palVaryUpdate", "invoke"}
        /\ pc \in {"invoke", "build", "idle"}
        /\ pc = "idle" => port = loc.oldPort

\* ---- C12
AnimateReturned == pc = "idle" /\ loc.op = "animate"

DrawnByDrawCels(e) ==
    e.signal \cap {kSignalNoUpdate, kSignalHidden, kSignalAlwaysUpdate} = {}

\* C12 as stated: after an animate call the snapshot is what drawCels drew in
\* that call, or empty on every early-return path.
C12_EmptyWhenSkipped ==
    /\ (AnimateFull /\ pc = "updateScreen")
           => lastCastData = SelectSeq(list, DrawnByDrawCels)
    /\ (AnimateReturned /\ loc.path # "full") => lastCastData = <<>>

AfterDrawCels == AnimateFull /\ pc = "updateScreen"

AfterDrawCelsToReturn ==
    AnimateFull /\ pc \in {"updateScreen", "restoreForward", "restoreReverse", "finish"}

\* C12 amended: when full compositing ran, the snapshot is the sequence of
\* entries drawCels drew, in list order, and stays so until the call returns;
\* on the null-list path it is empty; on the early return from behaviour
\* invocation it is left as the previous call left it.
C12_SnapshotPerCall ==
    /\ [](AfterDrawCels => lastCastData = SelectSeq(list, DrawnByDrawCels))
    /\ []((AnimateReturned /\ loc.path = "null") => lastCastData = <<>>)
    /\ [][(AfterDrawCelsToReturn \/ pc = "invoke") => lastCastData' = lastCastData]_vars

\* an animate call returned early from invoke with the snapshot of the call
\* before it
C12_Witness ==
    /\ AnimateReturned
    /\ loc.path = "fastCast"
    /\ Len(lastCastData) >= 2
    /\ \A k \in 1..Len(log) : log[k].op # "draw"

\* ---- C13
NonListFatal ==
    /\ pc = "fatal"
    /\ loc.path = "fatal"
    /\ log # <<>>
    /\ log[Len(log)] = Ev("error", 0, "non-list", 0)

\* C13: a list handle that resolves to no list ends animate and addToPicList
\* in the fatal error with no callback, list building, drawing or object
\* write done, and the picture-invalid flag, the objects, the list and the
\* snapshot as they were.
C13_NonListFatal ==
    [][NonListFatal' =>
          /\ obj' = obj
          /\ picNotValid' = picNotValid
          /\ list' = list
          /\ lastCastData' = lastCastData
          /\ live' = live
          /\ \A k \in 1..Len(log') :
                log'[k].op \in {"delayForPalVary", "palVaryUpdate", "error"}]_vars

C13_Witness ==
    /\ NonListFatal
    /\ loc.op = "animate"
    /\ picNotValid # 0
    /\ lastCastData = <<>>
    /\ list # <<>>

\* ---- C14
AnimateComposited == AnimateReturned /\ loc.path = "full"

\* C14 as stated: at the return of every animate call every object's
\* underBits handle is null, entries left in NoUpdate state included.
C14_UnderBitsNullAtReturn ==
    AnimateReturned => \A o \in Objects : obj[o].underBits = 0

\* C14 amended: at the return of an animate call that composited, the
\* underBits handle of a list entry is null when its signal, as re-read in
\* restoreAndDelete, has neither NoUpdate nor RemoveView; any other entry
\* keeps the handle it has, which is a saved background not yet restored;
\* when the update passes ran and no delete_ method was called, an entry left
\* in NoUpdate state and not hidden has the handle Pass 3 saved.
C14_UnderBitsAtReturn ==
    AnimateComposited =>
        \A i \in 1..Len(list) :
            LET e == list[i]
                underBits == obj[e.object].underBits
            IN  /\ e.signal \cap {kSignalNoUpdate, kSignalRemoveView} = {}
                      => underBits = 0
                /\ underBits # 0 => underBits \in live
                /\ (/\ loc.old_picNotValid # 0
                    /\ EventsOf({"dispose"}) = {}
                    /\ kSignalNoUpdate \in e.signal
                    /\ kSignalHidden \notin e.signal)
                      => underBits # 0

\* one entry was drawn and restored, another one is left in NoUpdate state
\* with its saved background
C14_Witness ==
    /\ AnimateComposited
    /\ \E i, j \in 1..Len(list) :
          /\ kSignalNoUpdate \in list[i].signal
          /\ obj[list[i].object].underBits \in live
          /\ list[j].signal \cap {kSignalNoUpdate, kSignalRemoveView} = {}
          /\ \E k \in 1..Len(log) : log[k].op = "restore" /\ log[k].o = list[j].object

\* ---- C15
AddToPicReturned == pc = "idle" /\ loc.op \in {"addToPicList", "addToPicView"}

\* C15: after addToPicList or addToPicView returns, the picture-invalid flag
\* is 1 for engine versions up to SCI1-early and 2 for later ones, whatever it
\* was before the call.
C15_PicNotValidAfterAddToPic ==
    AddToPicReturned =>
        /\ picNotValid = IF version <= SCI_VERSION_1_EARLY THEN 1 ELSE 2
        /\ picNotValid # 0

\* the flag was 0 before an addToPicList call of an SCI1-early game
C15_Witness ==
    /\ AddToPicReturned
    /\ loc.op = "addToPicList"
    /\ list # <<>>
    /\ version = SCI_VERSION_1_EARLY
    /\ loc.old_picNotValid = 0
    /\ picNotValid = 1

\* ---- C16
IsDraw(ev) == ev.op = "draw"

\* C16: addToPicList draws every entry of the list exactly once, in sorted
\* order, whatever its signal bits are; it leaves loop and cel of the entry
\* and of the object as read, and saves no background.
C16_AddToPicDrawsAll ==
    AfterAddToPicList =>
        /\ Len(SelectSeq(log, IsDraw)) = Len(list)
        /\ \A i \in 1..Len(list) :
              /\ SelectSeq(log, IsDraw)[i].o = list[i].object
              /\ list[i].loopNo = ToS16(built[list[i].object].loop)
              /\ list[i].celNo = ToS16(built[list[i].object].cel)
              /\ obj[list[i].object].loop = built[list[i].object].loop
              /\ obj[list[i].object].cel = built[list[i].object].cel
              /\ obj[list[i].object].underBits = built[list[i].object].underBits
              /\ ~WroteSelector(list[i].object, "loop")
              /\ ~WroteSelector(list[i].object, "cel")
        /\ EventsOf({"save", "restore", "free"}) = {}

\* a hidden NoUpdate entry with a negative loop number was drawn
C16_Witness ==
    /\ AfterAddToPicList
    /\ Len(list) = 3
    /\ \E i \in 1..3 :
          /\ {kSignalHidden, kSignalNoUpdate} \subseteq list[i].signal
          /\ list[i].loopNo = -1
          /\ list[i].celNo = 7
          /\ SelectSeq(log, IsDraw)[i].o = list[i].object

\* ---- C17
\* C17: an animate call that returns leaves the port that was current when
\* it began: the full path sets it back after restoreAndDelete and the event
\* manager update, the early-return paths never set a port.
C17_PortRestored ==
    AnimateReturned =>
        /\ port = loc.oldPort
        /\ loc.path # "full" => EventsOf({"setPort"}) = {}
        /\ loc.path = "full" =>
              /\ Cardinality(EventsOf({"setPort"})) = 1
              /\ \A p \in EventsOf({"setPort"}) :
                    /\ log[p].f = port
                    /\ \A k \in EventsOf({"readSignal", "dispose", "write", "restore",
                                          "updateScreen"}) : k < p

\* a full call that began in another port than the picture window
C17_Witness ==
    /\ AnimateComposited
    /\ port = "menu"
    /\ Len(list) >= 2
    /\ EventsOf({"dispose"}) # {}

\* ---- C18
IsInvoke(ev) == ev.op = "invoke"

NotFrozen(o) == kSignalFrozen \notin obj[o].signal

\* the objects whose doit was called in the running call, in call order
Invoked == SelectSeq(log, IsInvoke)

\* a node left the cast list during the running call
NodeRemoved == nodes # loc.nodes

\* C18: the doit calls of an animate call go through the cast list in list
\* order, at most one per node; when a node is gone after its own doit, the
\* walk ends there: no later doit is called, and no error is raised.
C18_WalkEndsAtRemovedNode ==
    loc.op = "animate" =>
        /\ Len(Invoked) <= Len(SelectSeq(loc.nodes, NotFrozen))
        /\ \A k \in 1..Len(Invoked) :
              Invoked[k].o = SelectSeq(loc.nodes, NotFrozen)[k]
        /\ ~loc.cycle => Invoked = <<>>
        /\ NodeRemoved =>
              /\ Invoked # <<>>
              /\ \A n \in 1..Len(nodes) : nodes[n] # Invoked[Len(Invoked)].o
              /\ pc # "invoke"
              /\ EventsOf({"error"}) = {}

\* the first of three objects removed itself; the call went on to composite
\* the other two without calling their doit
C18_Witness ==
    /\ AnimateComposited
    /\ loc.nodes = <<1, 2, 3>>
    /\ nodes = <<2, 3>>
    /\ Len(Invoked) = 1
    /\ Len(list) = 2

\* ---- C19
GeometrySelectors == {"loop", "cel", "scaleX", "scaleY", "ns", "priority"}

\* The phases of a full animate call: 1 rebuild and sort, 2 geometry, 3 the
\* update passes, 4 drawCels, 5 picture refresh, 6 updateScreen,
\* 7 restoreAndDelete, 8 event manager, 9 port restore, 10 throttle flag;
\* 0 is what precedes them. PhaseLo and PhaseHi are the first and the last
\* phase that can make the call an event records.
PhaseLo(ev) ==
    CASE ev.op = "makeSortedList" -> 1
      [] ev.op = "write" /\ ev.f \in GeometrySelectors -> 2
      [] ev.op \in {"beginUpdate", "endUpdate", "free", "fillRect"} -> 3
      [] ev.op \in {"draw", "save", "restore"} -> 3
      [] ev.op = "write" /\ ev.f = "underBits" -> 3
      [] ev.op = "showPic" -> 5
      [] ev.op = "show" -> 6
      [] ev.op = "write" /\ ev.f = "ls" -> 6
      [] ev.op = "write" /\ ev.f = "signal" -> 7
      [] ev.op \in {"readSignal", "dispose"} -> 7
      [] ev.op = "updateScreen" -> 8
      [] ev.op = "setPort" -> 9
      [] ev.op = "throttle" -> 10
      [] OTHER -> 0

PhaseHi(ev) ==
    CASE ev.op \in {"draw", "save"} -> 4
      [] ev.op = "restore" -> 7
      [] ev.op = "write" /\ ev.f = "underBits" -> 7
      [] OTHER -> PhaseLo(ev)

OncePerCall == {"makeSortedList", "beginUpdate", "endUpdate", "showPic",
                "updateScreen", "setPort", "throttle"}

\* the events of the log are in phase order, and the events that mark a
\* phase occur once
PhasesInOrder ==
    /\ \A k \in 1..Len(log), l \in 1..Len(log) :
          k < l => /\ PhaseLo(log[k]) <= PhaseHi(log[l])
                   /\ log[k].op \in OncePerCall => log[l].op # log[k].op
    /\ EventsOf({"beginUpdate", "endUpdate", "free", "fillRect"}) # {}
          => loc.old_picNotValid # 0

SavedInPass3(o) == \E c \in 1..Len(log) : log[c].op = "save" /\ log[c].o = o

\* the update passes are over and drawCels has not started: the background
\* was given back (pass 1) before anything was drawn or saved, the cels drawn
\* without a saved background (pass 2) precede every save (pass 3), and the
\* cels drawn over a saved background (pass 4) follow every save
PassesInOrder ==
    \A a \in 1..Len(log), b \in 1..Len(log) :
        a < b =>
            /\ ~(log[a].op \in {"draw", "save", "fillRect"}
                    /\ log[b].op \in {"restore", "free"})
            /\ (log[a].op = "save" /\ log[b].op = "draw") => SavedInPass3(log[b].o)
            /\ (log[a].op = "draw" /\ log[b].op = "save") => ~SavedInPass3(log[a].o)

\* the step from fill goes to the update passes exactly when invalidation
\* was flagged, and the step of drawCels refreshes the picture exactly when
\* the screen is invalid
PhaseConditions ==
    /\ (pc = "fill" /\ pc' # "fatal")
          => (pc' = "update1") = (loc'.old_picNotValid # 0)
    /\ pc = "drawCels"
          => (\E k \in 1..Len(log') : log'[k].op = "showPic") = (picNotValid # 0)

\* C19: a full animate call runs its phases in the order rebuild and sort,
\* geometry, the four update passes (only if invalidation was flagged),
\* drawCels, picture refresh (only if the screen is invalid), updateScreen,
\* restoreAndDelete, event manager notification, port restore, throttle flag,
\* each at most once, and each update pass is done with the whole list
\* before the next one starts.
C19_PhaseOrder ==
    /\ [](AnimateFull => PhasesInOrder)
    /\ []((AnimateFull /\ pc = "drawCels") => PassesInOrder)
    /\ [][AnimateFull => PhaseConditions]_vars

\* a call on three entries that went through all phases: two backgrounds
\* were saved in pass 3 before the first cel of pass 4 was drawn
C19_Witness ==
    /\ AnimateComposited
    /\ Len(list) = 3
    /\ {"beginUpdate", "endUpdate", "showPic", "dispose", "throttle"}
          \subseteq {log[k].op : k \in 1..Len(log)}
    /\ \E a \in 1..Len(log), b \in 1..Len(log), c \in 1..Len(log) :
          /\ a < b /\ b < c
          /\ log[a].op = "save" /\ log[b].op = "save" /\ log[c].op = "draw"
          /\ log[a].o # log[b].o /\ log[c].o = log[a].o

\* ---- C20
\* an entry of the sorted list, as makeSortedList read it, satisfies the
\* invalidation predicate
SomeEntryInvalidates == \E i \in 1..Len(list) : FillInvalidates(list[i].signal)

\* the step of fill in a full animate call that does not end in a fatal error
FillStep == AnimateFull /\ pc = "fill" /\ pc' # "fatal"

\* C20: the four update passes run in an animate call exactly when the
\* screen was marked invalid at call entry or at least one list entry
\* satisfies the invalidation predicate of fill, for lists of any length.
C20_PassesIffInvalidated ==
    [][FillStep => ((pc' = "update1") = (picNotValid # 0 \/ SomeEntryInvalidates))]_vars

\* ---- C21
\* what the step being taken adds to the log
NewEvents == SubSeq(log', Len(log) + 1, Len(log'))

IsBitsReturn(ev) == ev.op \in {"restore", "free"}

\* the restore and free calls of the step, in call order
BitsReturned == SelectSeq(NewEvents, IsBitsReturn)

\* list positions, from the last to the first, of the entries whose
\* background pass 1 gives back
RECURSIVE Pass1Returns(_)
Pass1Returns(n) ==
    IF n = 0 THEN <<>>
    ELSE IF kSignalNoUpdate \in list[n].signal /\ kSignalRemoveView \notin list[n].signal
             THEN <<n>> \o Pass1Returns(n - 1)
             ELSE Pass1Returns(n - 1)

Pass1SignalAfter(sig) ==
    IF kSignalNoUpdate \in sig
        THEN IF kSignalViewUpdated \in sig
                 THEN sig \ {kSignalForceUpdate, kSignalViewUpdated, kSignalNoUpdate}
                 ELSE sig \ {kSignalForceUpdate}
        ELSE IF kSignalStopUpdate \in sig
                 THEN (sig \ {kSignalStopUpdate}) \cup {kSignalNoUpdate}
                 ELSE sig

\* the step of pass 1, with the background freed when the picture-invalid
\* flag is in freeLevels and restored otherwise
Pass1StepIs(freeLevels) ==
    /\ Len(BitsReturned) = Len(Pass1Returns(Len(list)))
    /\ \A k \in 1..Len(BitsReturned) :
          /\ BitsReturned[k].o = list[Pass1Returns(Len(list))[k]].object
          /\ BitsReturned[k].v = obj[BitsReturned[k].o].underBits
          /\ BitsReturned[k].op = IF picNotValid \in freeLevels THEN "free" ELSE "restore"
          /\ obj'[BitsReturned[k].o].underBits = 0
    /\ \A i \in 1..Len(list) :
          /\ list'[i].signal = Pass1SignalAfter(list[i].signal)
          /\ (\A k \in 1..Len(BitsReturned) : BitsReturned[k].o # list[i].object)
                => obj'[list[i].object].underBits = obj[list[i].object].underBits

Pass1Step == AnimateFull /\ pc = "update1"

\* C21 as stated: the background is freed at either level of an invalid screen
C21_FreedWhenInvalid == [][Pass1Step => Pass1StepIs({1, 2})]_vars

\* C21: pass 1 goes through the list from its last entry to its first; for
\* an entry with NoUpdate set and RemoveView clear it frees the saved
\* background when the picture-invalid flag is 1 and restores it when the flag
\* is 0 or 2, exactly one of the two, and clears the object's underBits; it
\* clears ForceUpdate of every NoUpdate entry, and ViewUpdated and NoUpdate
\* too if ViewUpdated was set; an entry with StopUpdate and without NoUpdate
\* gets NoUpdate set and StopUpdate cleared and no background given back.
C21_Pass1 == [][Pass1Step => Pass1StepIs({1})]_vars

\* pass 1 is over in a call entered at invalid level 2: two backgrounds were
\* restored, that of the later entry first, and none was freed
C21_Witness ==
    /\ AnimateFull /\ pc = "update2"
    /\ picNotValid = 2
    /\ EventsOf({"free"}) = {}
    /\ \E a \in 1..Len(log), b \in 1..Len(log) :
          /\ a < b
          /\ log[a].op = "restore" /\ log[b].op = "restore"
          /\ NodeIndex(log[a].o) > NodeIndex(log[b].o)

\* ---- C22
\* positions in the log of the step being taken where the background of
\* object o is saved
NewSaves(o) == {k \in 1..Len(NewEvents) : NewEvents[k].op = "save" /\ NewEvents[k].o = o}

Pass3Saved(i) ==
    /\ list'[i].signal = list[i].signal \ {kSignalRemoveView}
    /\ Cardinality(NewSaves(list[i].object)) = 1
    /\ \A k \in NewSaves(list[i].object) :
          /\ NewEvents[k].f = IF kSignalIgnoreActor \in list[i].signal
                                  THEN "visual+priority" ELSE "all"
          /\ NewEvents[k].v # 0
          /\ NewEvents[k].v \notin live
          /\ obj'[list[i].object].underBits = NewEvents[k].v

Pass3NotSaved(i, sig) ==
    /\ list'[i].signal = sig
    /\ NewSaves(list[i].object) = {}
    /\ obj'[list[i].object].underBits = obj[list[i].object].underBits

Pass3Step == AnimateFull /\ pc = "update3"

Pass3StepIs ==
    \A i \in 1..Len(list) :
        IF kSignalNoUpdate \in list[i].signal
            THEN IF kSignalHidden \in list[i].signal
                     THEN Pass3NotSaved(i, list[i].signal \cup {kSignalRemoveView})
                     ELSE Pass3Saved(i)
            ELSE Pass3NotSaved(i, list[i].signal)

\* the update passes of the running call are over
UpdatePassesDone == AnimateFull /\ pc = "drawCels" /\ loc.old_picNotValid # 0

\* C22: pass 3 sets RemoveView of every entry that has NoUpdate and Hidden
\* set and saves nothing for it; for a NoUpdate entry that is not hidden it
\* clears RemoveView and saves the background once (visual and priority
\* planes if IgnoreActor is set, all planes otherwise), the handle written to
\* the object's underBits; entries without NoUpdate are left alone. After the
\* update passes a NoUpdate entry has RemoveView set iff it has Hidden set.
C22_Pass3 ==
    /\ [][Pass3Step => Pass3StepIs]_vars
    /\ [](UpdatePassesDone =>
             \A i \in 1..Len(list) :
                 kSignalNoUpdate \in list[i].signal =>
                     (kSignalRemoveView \in list[i].signal)
                         = (kSignalHidden \in list[i].signal))

\* pass 3 is over: a hidden NoUpdate entry got RemoveView and no save, an
\* entry that came with RemoveView lost it, and the background of an
\* IgnoreActor entry was saved without the control plane
C22_Witness ==
    /\ AnimateFull /\ pc = "update4"
    /\ Len(list) = 3
    /\ list[1].signal = {kSignalNoUpdate, kSignalHidden, kSignalRemoveView}
    /\ built[2].signal = {kSignalNoUpdate, kSignalRemoveView, kSignalForceUpdate}
    /\ list[2].signal = {kSignalNoUpdate}
    /\ \E k \in 1..Len(log) :
          log[k].op = "save" /\ log[k].o = 3 /\ log[k].f = "visual+priority"
    /\ \A k \in 1..Len(log) : log[k].op = "save" => log[k].o # 1

\* ---- C23
DrawCelsTakes(i) ==
    list[i].signal \cap {kSignalNoUpdate, kSignalHidden, kSignalAlwaysUpdate} = {}

\* the list positions drawCels processes, in list order
DrawCelsTaken == SelectSeq([i \in 1..Len(list) |-> i], DrawCelsTakes)

IsPaintCall(ev) == ev.op # "showPic"

\* the calls drawCels itself makes in the step being taken
DrawCelsCalls == SelectSeq(NewEvents, IsPaintCall)

DrawCelsStep == AnimateFull /\ pc = "drawCels"

\* entry number k of those processed: its background saved on all planes, the
\* handle written, then the cel drawn
DrawCelsTook(k, i) ==
    /\ DrawCelsCalls[3 * k - 2].op = "save"
    /\ DrawCelsCalls[3 * k - 2].o = list[i].object
    /\ DrawCelsCalls[3 * k - 2].f = "all"
    /\ DrawCelsCalls[3 * k - 2].v \notin live \cup {0}
    /\ DrawCelsCalls[3 * k - 1] =
          Ev("write", list[i].object, "underBits", DrawCelsCalls[3 * k - 2].v)
    /\ DrawCelsCalls[3 * k] = Ev("draw", list[i].object, "", 0)
    /\ obj'[list[i].object].underBits = DrawCelsCalls[3 * k - 2].v
    /\ list'[i] = [list[i] EXCEPT !.showBitsFlag = TRUE,
                                  !.signal = @ \ {kSignalRemoveView}]
    /\ lastCastData'[k] = list'[i]

DrawCelsStepIs ==
    /\ Len(DrawCelsCalls) = 3 * Len(DrawCelsTaken)
    /\ Len(lastCastData') = Len(DrawCelsTaken)
    /\ \A k \in 1..Len(DrawCelsTaken) : DrawCelsTook(k, DrawCelsTaken[k])
    /\ \A i \in 1..Len(list) :
          ~DrawCelsTakes(i) =>
              /\ list'[i] = list[i]
              /\ obj'[list[i].object].underBits = obj[list[i].object].underBits

\* C23: drawCels processes exactly the entries whose signal has none of
\* NoUpdate, Hidden and AlwaysUpdate: for each of them, in list order, it
\* saves the background on all planes, writes the handle to the object, draws
\* the cel, marks the entry drawn, clears RemoveView and appends a copy of the
\* entry to the retained snapshot; no other entry is saved, drawn, changed or
\* added to the snapshot.
C23_DrawCels == [][DrawCelsStep => DrawCelsStepIs]_vars

\* drawCels is over on a list of three entries: the first one is an
\* AlwaysUpdate entry and was left out, the other two are in the snapshot
C23_Witness ==
    /\ AnimateFull /\ pc = "updateScreen"
    /\ Len(list) = 3
    /\ kSignalAlwaysUpdate \in list[1].signal
    /\ Len(lastCastData) = 2
    /\ lastCastData[1].object = list[2].object
    /\ lastCastData[2].object = list[3].object
    /\ lastCastData[2].showBitsFlag

\* ---- C24
\* the two rectangles have a pixel in common
Overlap(a, b) ==
    /\ Max(a.left, b.left) < Min(a.right, b.right)
    /\ Max(a.top, b.top) < Min(a.bottom, b.bottom)

\* the entry at list position i has its drawn flag set or is not suppressed
ScreenTakes(i) ==
    \/ list[i].showBitsFlag
    \/ list[i].signal \cap {kSignalRemoveView, kSignalNoUpdate} = {}

\* the calls updateScreen makes for the entry at list position i
ScreenCalls(i) ==
    IF ~ScreenTakes(i) THEN <<>>
    ELSE IF Overlap(obj[list[i].object].ls, list[i].celRect)
        THEN <<Ev("write", list[i].object, "ls", list[i].celRect),
               Ev("show", 0, "", RectExtend(obj[list[i].object].ls, list[i].celRect))>>
        ELSE <<Ev("show", 0, "", obj[list[i].object].ls),
               Ev("write", list[i].object, "ls", list[i].celRect),
               Ev("show", 0, "", list[i].celRect)>>

RECURSIVE ScreenCallsUpTo(_)
ScreenCallsUpTo(n) == IF n = 0 THEN <<>> ELSE ScreenCallsUpTo(n - 1) \o ScreenCalls(n)

UpdateScreenStep == AnimateFull /\ pc = "updateScreen"

UpdateScreenStepIs ==
    /\ NewEvents = ScreenCallsUpTo(Len(list))
    /\ \A i \in 1..Len(list) :
          IF ScreenTakes(i)
              THEN /\ obj'[list[i].object].ls = list[i].celRect
                   /\ list'[i].signal =
                         IF kSignalHidden \in list[i].signal
                             THEN list[i].signal \cup {kSignalRemoveView}
                             ELSE list[i].signal
              ELSE /\ obj'[list[i].object].ls = obj[list[i].object].ls
                   /\ list'[i] = list[i]

\* C24: for every entry that updateScreen processes: if its previous
\* rectangle and its new draw rectangle overlap, one flush is issued, of their
\* union; if they do not, two are issued, the old rectangle first and then
\* the new one; afterwards the object's stored rectangle is the new draw
\* rectangle, and RemoveView is set if the entry is hidden.
C24_Flushes == [][UpdateScreenStep => UpdateScreenStepIs]_vars

\* updateScreen is over: the first object was last shown overlapping its new
\* place and got one flush of the union, the second was last shown edge to
\* edge with the first and got two flushes
C24_Witness ==
    /\ AnimateFull /\ pc = "restoreForward"
    /\ built[1].ls = Rect(40, 100, 60, 140)
    /\ built[2].ls = Rect(50, 71, 70, 111)
    /\ obj[1].ls = Rect(30, 71, 50, 111)
    /\ obj[2].ls = Rect(70, 81, 90, 121)
    /\ \E a \in 1..Len(log), b \in 1..Len(log), c \in 1..Len(log) :
          /\ a < b /\ b < c
          /\ log[a].op = "show" /\ log[a].v = Rect(30, 71, 60, 140)
          /\ log[b].op = "show" /\ log[b].v = Rect(50, 71, 70, 111)
          /\ log[c].op = "show" /\ log[c].v = Rect(70, 81, 90, 121)
    /\ Cardinality(EventsOf({"show"})) = 3

\* ---- C25
\* updateScreen processes the entry at list position i in the step being taken
ScreenProcesses(i) ==
    \E k \in 1..Len(NewEvents) :
        /\ NewEvents[k].op = "write"
        /\ NewEvents[k].o = list[i].object
        /\ NewEvents[k].f = "ls"

NotSuppressed(i) == list[i].signal \cap {kSignalRemoveView, kSignalNoUpdate} = {}

\* pass 1 of the running call restored the background of object o
RestoredObject(o) == \E k \in 1..Len(log) : log[k].op = "restore" /\ log[k].o = o

\* values of the oldPicNotValid argument
OldPicValues == {0, 1, 2, 255}

\* updateScreen does the same whatever its argument is
ArgumentIgnored ==
    \A v \in OldPicValues :
        /\ updateScreen([Cur EXCEPT !.oldPic = v]).log = updateScreen(Cur).log
        /\ updateScreen([Cur EXCEPT !.oldPic = v]).list = updateScreen(Cur).list
        /\ updateScreen([Cur EXCEPT !.oldPic = v]).obj = updateScreen(Cur).obj

\* C25 as stated: processed iff drawn in this call or not suppressed
C25_ProcessedIffDrawn ==
    /\ [][UpdateScreenStep =>
             \A i \in 1..Len(list) :
                 ScreenProcesses(i) = (DrewObject(list[i].object) \/ NotSuppressed(i))]_vars
    /\ [](UpdateScreenStep => ArgumentIgnored)

\* C25: updateScreen processes an entry if and only if its cel was drawn in
\* this call, or pass 1 restored its background in this call, or its signal
\* has neither RemoveView nor NoUpdate set; the entries processed and the
\* flushes issued do not depend on the oldPicNotValid argument.
C25_ProcessedIffFlagged ==
    /\ [][UpdateScreenStep =>
             \A i \in 1..Len(list) :
                 ScreenProcesses(i) = (\/ DrewObject(list[i].object)
                                       \/ RestoredObject(list[i].object)
                                       \/ NotSuppressed(i))]_vars
    /\ [](UpdateScreenStep => ArgumentIgnored)

\* updateScreen has processed a hidden NoUpdate entry whose cel was not
\* drawn: pass 1 had restored its background
C25_Witness ==
    /\ AnimateFull /\ pc = "restoreForward"
    /\ Len(list) >= 2
    /\ list[1].signal = {kSignalNoUpdate, kSignalHidden, kSignalRemoveView}
    /\ ~DrewObject(list[1].object)
    /\ RestoredObject(list[1].object)
    /\ WroteSelector(list[1].object, "ls")

\* ---- C26
\* one step of the second loop of restoreAndDelete
ReverseStep == AnimateFull /\ pc = "restoreReverse"

\* the operations the step on an entry with the signal sig consists of
ReverseOps(sig) ==
    <<"readSignal">>
    \o (IF sig \cap {kSignalNoUpdate, kSignalRemoveView} = {}
            THEN <<"restore", "write">> ELSE <<>>)
    \o (IF kSignalDisposeMe \in sig THEN <<"dispose">> ELSE <<>>)

\* the step handles entry idx on the signal its object holds now
ReverseStepIs ==
    LET o   == list[idx].object
        sig == obj[o].signal
        new == NewEvents
    IN  /\ Cardinality(EventsOf({"readSignal"})) = Len(list) - idx
        /\ idx' = idx - 1
        /\ Len(new) = Len(ReverseOps(sig))
        /\ \A k \in 1..Len(new) : new[k].op = ReverseOps(sig)[k] /\ new[k].o = o
        /\ new[1].v = sig
        /\ sig \cap {kSignalNoUpdate, kSignalRemoveView} = {} =>
              /\ new[2].v = obj[o].underBits
              /\ new[3].f = "underBits" /\ new[3].v = 0
              /\ obj'[o].underBits = 0
        /\ sig \cap {kSignalNoUpdate, kSignalRemoveView} # {} =>
              obj'[o].underBits = obj[o].underBits

\* C26: the reverse pass of restoreAndDelete handles the entries from the last
\* to the first; an entry's background is restored and its underBits cleared
\* exactly when its re-read signal has neither NoUpdate nor RemoveView, its
\* delete_ method is called exactly when that signal has DisposeMe, and no
\* entry's background is restored after that entry's delete_ was called.
C26_ReversePass ==
    /\ [][ReverseStep => ReverseStepIs]_vars
    /\ [](AnimateFull =>
             \A a \in EventsOf({"dispose"}) : \A b \in EventsOf({"restore"}) :
                 log[a].o = log[b].o => b < a)

\* the reverse pass has restored and then disposed of one entry, and has left
\* the background of another entry alone
C26_Witness ==
    /\ AnimateFull
    /\ pc = "finish"
    /\ Len(list) >= 2
    /\ \E a \in EventsOf({"dispose"}) : \E b \in EventsOf({"restore"}) :
          log[a].o = log[b].o /\ b > FirstReread
    /\ \E i \in 1..Len(list) :
          /\ list[i].signal \cap {kSignalNoUpdate, kSignalRemoveView} # {}
          /\ ~\E k \in 1..Len(log) : ReverseEvent(k, "restore", list[i].object)

\* ---- C27
\* a step of the running animate call that saves backgrounds
SavingStep == AnimateFull /\ pc \in {"update3", "drawCels"}

\* the objects of the cast list saved more than once in the running call
SavedTwice ==
    {o \in Objects : \E a \in 1..Len(log), b \in 1..Len(log) :
                        /\ a < b
                        /\ log[a].op = "save" /\ log[a].o = o
                        /\ log[b].op = "save" /\ log[b].o = o}

\* C27: whenever pass 3 or drawCels writes a newly saved handle to an
\* object's underBits, the handle stored there before is null or has been
\* restored or freed, over any sequence of calls between which scripts change
\* signal bits; pass 3 and drawCels never both save the same entry in one call.
C27_NoLiveHandleOverwritten ==
    /\ [][SavingStep =>
             \A o \in Objects : NewSaves(o) # {} => obj[o].underBits \notin live]_vars
    /\ [](AnimateFull => SavedTwice = {})

\* ---- C28
\* the restores the step makes
NewRestores == {k \in 1..Len(NewEvents) : NewEvents[k].op = "restore"}

\* the saves of object o in the running call, and the last of them
SavesOf(o) == {k \in EventsOf({"save"}) : log[k].o = o}

LastSaveOf(o) == CHOOSE k \in SavesOf(o) : \A l \in SavesOf(o) : l <= k

\* pass 1 gave back or freed the background of object o in the running call
ConsumedInPass1(o) ==
    \E k \in EventsOf({"restore", "free"}) : log[k].o = o

\* C28 as stated: in restoreAndDelete every background restore is applied to
\* a handle that was saved earlier and has not been restored or freed since,
\* never to a null handle, whatever the signal bits of the entry.
C28_RestoresLiveHandle ==
    [][ReverseStep => \A k \in NewRestores : NewEvents[k].v \in live]_vars

\* C28: in restoreAndDelete every background restore is applied to the handle
\* the object's underBits holds; that handle is null or a saved background
\* not yet restored or freed, it is the handle saved in this call if a pass
\* saved the entry, and it is null if no pass saved the entry and the object
\* came without a handle or pass 1 cleared it.
C28_RestoresStoredHandle ==
    [][ReverseStep =>
          \A k \in NewRestores :
              LET o == NewEvents[k].o
                  h == NewEvents[k].v
              IN  /\ h = obj[o].underBits
                  /\ h = 0 \/ h \in live
                  /\ SavesOf(o) # {} => h = log[LastSaveOf(o)].v /\ h \in live
                  /\ (SavesOf(o) = {} /\ (built[o].underBits = 0 \/ ConsumedInPass1(o)))
                        => h = 0]_vars

\* the reverse pass restored the handle drawCels saved for one entry and a
\* null handle for an AlwaysUpdate entry that pass 2 drew
C28_Witness ==
    /\ AnimateFull
    /\ pc = "finish"
    /\ Len(list) >= 2
    /\ \E a \in 1..Len(log), b \in 1..Len(log) :
          /\ ReverseEvent(a, "restore", log[a].o)
          /\ log[a].v = 0
          /\ kSignalAlwaysUpdate \in obj[log[a].o].signal
          /\ EventsOf({"draw"}) \cap {k \in 1..Len(log) : log[k].o = log[a].o} # {}
          /\ ReverseEvent(b, "restore", log[b].o)
          /\ log[b].v # 0
          /\ SavesOf(log[b].o) # {}

\* ---- C29
\* the signal values the first loop of restoreAndDelete wrote to objects
SignalWrites == {k \in EventsOf({"write"}) : log[k].f = "signal"}

\* C29: in every full animate call the signal value written back to each
\* object in the forward pass of restoreAndDelete has StopUpdate clear and
\* ForceUpdate clear, whatever the signal at the start of the call and
\* whether or not the update passes ran.
C29_WrittenSignalClean ==
    AnimateFull =>
        \A k \in SignalWrites :
            log[k].v \cap {kSignalStopUpdate, kSignalForceUpdate} = {}

\* ---- C30
\* the drawCel calls of the running call for object o
DrawsOf(o) == {k \in EventsOf({"draw"}) : log[k].o = o}

\* a step of the running call that draws cels
DrawingStep == AnimateFull /\ pc \in {"update2", "update4", "drawCels"}

NewDraws(o) == {k \in 1..Len(NewEvents) : NewEvents[k].op = "draw" /\ NewEvents[k].o = o}

\* C30: within one animate call the cel of each entry is drawn at most once:
\* pass 2, pass 4 and drawCels never draw the same entry, whatever the signal
\* bits the entry had at the start of the call.
C30_DrawnAtMostOnce ==
    /\ [](AnimateFull => \A o \in Objects : Cardinality(DrawsOf(o)) <= 1)
    /\ [][DrawingStep =>
             \A o \in Objects : NewDraws(o) # {} =>
                 /\ DrawsOf(o) = {}
                 /\ Cardinality(NewDraws(o)) = 1]_vars

\* a call has ended in which an entry that came with both AlwaysUpdate and
\* NoUpdate was drawn once, by pass 2, and another entry once, by drawCels
C30_Witness ==
    /\ AnimateFull
    /\ pc = "finish"
    /\ Len(list) >= 2
    /\ {kSignalAlwaysUpdate, kSignalNoUpdate} \subseteq built[1].signal
    /\ kSignalHidden \notin built[1].signal
    /\ Cardinality(DrawsOf(1)) = 1
    /\ Cardinality(DrawsOf(2)) = 1
    /\ SavesOf(1) = {}
    /\ SavesOf(2) # {}

\* ---- C31
\* the list positions of the entries that were hidden and not in AlwaysUpdate
\* state when the list was built
HiddenAtBuild ==
    {i \in 1..Len(list) :
        /\ kSignalHidden \in built[list[i].object].signal
        /\ kSignalAlwaysUpdate \notin built[list[i].object].signal}

\* the list of the running call has been built
ListBuilt == AnimateFull /\ pc \notin {"idle", "invoke", "build", "fatal"}

\* C31: an entry whose signal has Hidden set and AlwaysUpdate clear when the
\* list is built is never drawn and never has a background saved in that
\* call; after updateScreen it has NoUpdate or RemoveView set, and so has
\* the signal the first loop of restoreAndDelete writes to its object.
C31_HiddenStaysOut ==
    ListBuilt =>
        \A i \in HiddenAtBuild :
            /\ DrawsOf(list[i].object) = {}
            /\ SavesOf(list[i].object) = {}
            /\ pc = "restoreForward" =>
                  list[i].signal \cap {kSignalNoUpdate, kSignalRemoveView} # {}
            /\ \A k \in SignalWrites :
                  log[k].o = list[i].object =>
                      log[k].v \cap {kSignalNoUpdate, kSignalRemoveView} # {}

\* a call has written back the signal of an entry that came hidden with
\* neither NoUpdate nor RemoveView: updateScreen gave it RemoveView, and a
\* sibling was drawn over a saved background
C31_Witness ==
    /\ ListBuilt
    /\ pc = "finish"
    /\ 1 \in HiddenAtBuild
    /\ built[list[1].object].signal \cap {kSignalNoUpdate, kSignalRemoveView, kSignalStopUpdate} = {}
    /\ \E k \in SignalWrites :
          /\ log[k].o = list[1].object
          /\ kSignalRemoveView \in log[k].v
          /\ kSignalNoUpdate \notin log[k].v
    /\ \E i \in 2..Len(list) :
          DrawsOf(list[i].object) # {} /\ SavesOf(list[i].object) # {}

\* ---- C32
\* the walk of invoke stands at a list node
WalkAtNode == loc.op = "animate" /\ pc = "invoke" /\ idx <= Len(nodes)

\* the step returns from kernelAnimate at once and leaves everything alone
ReturnsUntouched ==
    /\ pc' = "idle"
    /\ loc'.path = "fastCast"
    /\ NewEvents = <<>>
    /\ UNCHANGED <<obj, list, lastCastData, live, picNotValid, nodes, port,
                   throttleTrigger>>

\* the step skips a frozen object or calls doit of the object of the node
WalkGoesOn ==
    /\ loc'.path = loc.path
    /\ IF kSignalFrozen \in obj[nodes[idx]].signal
           THEN NewEvents = <<>> /\ pc' = "invoke" /\ idx' = idx + 1
           ELSE /\ Len(NewEvents) = 1
                /\ NewEvents[1].op = "invoke"
                /\ NewEvents[1].o = nodes[idx]

\* C32: when fast-cast is enabled and the fast-cast global is non-null as the
\* walk reaches a list node, no further doit is called and animate returns
\* without rebuilding the list, drawing, flushing, writing a signal,
\* disposing of an object, changing the port or setting the throttle flag;
\* with fast-cast disabled the global has no effect on the call.
C32_FastCastReturn ==
    /\ [][(WalkAtNode /\ fastCastEnabled /\ fastCastGlobal) => ReturnsUntouched]_vars
    /\ [][(WalkAtNode /\ ~(fastCastEnabled /\ fastCastGlobal)) => WalkGoesOn]_vars
    /\ []((AnimateReturned /\ loc.path = "fastCast") =>
             /\ fastCastEnabled /\ fastCastGlobal
             /\ \A k \in 1..Len(log) :
                   log[k].op \in {"delayForPalVary", "palVaryUpdate", "invoke"})
    /\ [](~fastCastEnabled => loc.path # "fastCast")

\* a doit method set the fast-cast global and the call returned at the next
\* node, with doit methods left uncalled and nothing composited
C32_Witness ==
    /\ AnimateReturned
    /\ loc.path = "fastCast"
    /\ fastCastEnabled
    /\ Len(Invoked) >= 1
    /\ Len(Invoked) < Len(SelectSeq(loc.nodes, NotFrozen))
    /\ \A k \in 1..Len(log) : log[k].op \notin {"makeSortedList", "draw", "show", "write"}

\* with fast-cast disabled a call composited although the global was set in
\* the middle of its walk
FastCastDisabledComposited ==
    /\ AnimateFull
    /\ pc = "finish"
    /\ ~fastCastEnabled
    /\ fastCastGlobal
    /\ Len(Invoked) >= 2
    /\ EventsOf({"draw"}) # {}

====
